---- MODULE Spec2Model ----
(***************************************************************************)
(* Fabric invoice analysis: the name normalizer, the catalog index and the *)
(* five-strategy matching cascade of fabric_matcher.py, the CSV matcher of *)
(* test_basic_ocr.py and the price classification of api.py and app.py.    *)
(*                                                                         *)
(* A Python str is a sequence of one-character strings.  A score is an     *)
(* exact fraction [n, d] with d > 0.                                       *)
(***************************************************************************)
EXTENDS Integers, Sequences, FiniteSets, TLC

VARIABLES
    s_in,               \* normalizer: the argument of normalize_string
    s_once,             \* normalizer: normalize_string(s_in)
    s_twice,            \* normalizer: normalize_string(normalize_string(s_in))
    npc,                \* normalizer: "in" | "once" | "twice"
    database_fabrics,   \* FabricMatcher.database_fabrics (list of DatabaseFabric)
    db_index,           \* FabricMatcher.db_index (dict, in insertion order)
    csv_fabrics,        \* the list find_csv_fabric_match is given
    result,             \* outcome of the last match_fabric call
    lib_results,        \* what the similarity libraries returned during that call
    csv_result,         \* outcome of the last find_csv_fabric_match call
    rate,               \* price comparison: the invoice rate (item.rate)
    price,              \* price comparison: the catalog price
    ppc,                \* price comparison: "in" | "done"
    verdict_api,        \* price comparison: price_analysis of api.py
    verdict_app,        \* price comparison: price_analysis of app.py
    verdict_matcher,    \* price comparison: price fields of the MatchResult
    invoice_text,       \* parser: the text given to parse_invoice
    format_type,        \* parser: what detect_format returned for it
    parsed,             \* parser: outcome of parse_invoice
    parse_pc,           \* parser: "in" | "done"
    users_db,           \* API: users_db of api.py (dict, in insertion order)
    rate_limit_store,   \* API: rate_limit_store of api.py, user_key -> timestamps
    uploads,            \* API: the files of the upload folder, path -> [owner, text]
    now,                \* API: the clock, in seconds
    requests,           \* API: the request each thread handles and how far it is
    accepted            \* API: the log of the accepted requests (not in the code)

vars == <<s_in, s_once, s_twice, npc, database_fabrics, db_index, csv_fabrics,
          result, lib_results, csv_result, rate, price, ppc, verdict_api, verdict_app,
          verdict_matcher, invoice_text, format_type, parsed, parse_pc, users_db,
          rate_limit_store, uploads, now, requests, accepted>>

normVars == <<s_in, s_once, s_twice, npc>>
matchVars == <<database_fabrics, db_index, csv_fabrics, result, lib_results, csv_result>>
priceVars == <<rate, price, ppc, verdict_api, verdict_app, verdict_matcher>>
parseVars == <<invoice_text, format_type, parsed, parse_pc>>
apiVars == <<users_db, rate_limit_store, uploads, now, requests, accepted>>
restVars == <<normVars, matchVars, priceVars, parseVars>>

-----------------------------------------------------------------------------
(* Characters and Python str primitives                                    *)

UpperSeq == <<"A","B","C","D","E","F","G","H","I","J","K","L","M",
              "N","O","P","Q","R","S","T","U","V","W","X","Y","Z">>

LowerSeq == <<"a","b","c","d","e","f","g","h","i","j","k","l","m",
              "n","o","p","q","r","s","t","u","v","w","x","y","z">>

Digits == {"0","1","2","3","4","5","6","7","8","9"}

UpperChars == {UpperSeq[i] : i \in 1..26}

LowerChars == {LowerSeq[i] : i \in 1..26}

\* str.lower() on the capital letters
ToLower == [c \in UpperChars |-> LowerSeq[CHOOSE i \in 1..26 : UpperSeq[i] = c]]

IsUpper(c) == c \in UpperChars

IsLower(c) == c \in LowerChars

IsLetter(c) == c \in UpperChars \/ c \in LowerChars

IsDigit(c) == c \in Digits

\* \w of the re module
IsWord(c) == IsLetter(c) \/ IsDigit(c) \/ c = "_"

\* \s of the re module
IsSpace(c) == c = " "

\* str.lower() on one character
LowerChar(c) == IF c \in UpperChars THEN ToLower[c] ELSE c

Lower(s) == [i \in 1..Len(s) |-> LowerChar(s[i])]

\* the slice s[i:] counted from 1
From(s, i) == SubSeq(s, i, Len(s))

\* Python's `a in b` on str
Contains(b, a) == \E i \in 1..(Len(b) - Len(a) + 1) : SubSeq(b, i, i + Len(a) - 1) = a

\* \b between position i-1 and i of s (i in 1..Len(s)+1)
WordBoundary(s, i) ==
    LET before == i > 1 /\ IsWord(s[i-1])
        after  == i <= Len(s) /\ IsWord(s[i])
    IN  before # after

RECURSIVE SubDigits(_, _)
\* re.sub(r'\b\d{1,2}\b', " ", s), scanning from position i
SubDigits(s, i) ==
    IF i > Len(s) THEN <<>>
    ELSE IF IsDigit(s[i]) /\ WordBoundary(s, i) /\ i + 1 <= Len(s)
            /\ IsDigit(s[i+1]) /\ WordBoundary(s, i + 2)
         THEN <<" ">> \o SubDigits(s, i + 2)
    ELSE IF IsDigit(s[i]) /\ WordBoundary(s, i) /\ WordBoundary(s, i + 1)
         THEN <<" ">> \o SubDigits(s, i + 1)
    ELSE <<s[i]>> \o SubDigits(s, i + 1)

RECURSIVE SubTax(_, _)
\* re.sub(r'\b5%\b', " ", s), scanning from position i
SubTax(s, i) ==
    IF i > Len(s) THEN <<>>
    ELSE IF s[i] = "5" /\ WordBoundary(s, i) /\ i + 1 <= Len(s) /\ s[i+1] = "%"
            /\ WordBoundary(s, i + 2)
         THEN <<" ">> \o SubTax(s, i + 2)
    ELSE <<s[i]>> \o SubTax(s, i + 1)

\* [A-Z]{2}\d{2}[A-Z]{5}\d{2} matched at position i of s
HsnAt(s, i) ==
    /\ i + 10 <= Len(s)
    /\ \A k \in {0, 1, 4, 5, 6, 7, 8} : IsUpper(s[i+k])
    /\ \A k \in {2, 3, 9, 10} : IsDigit(s[i+k])

RECURSIVE SubHsn(_, _)
\* re.sub(r'\b[A-Z]{2}\d{2}[A-Z]{5}\d{2}\b', " ", s), scanning from position i
SubHsn(s, i) ==
    IF i > Len(s) THEN <<>>
    ELSE IF HsnAt(s, i) /\ WordBoundary(s, i) /\ WordBoundary(s, i + 11)
         THEN <<" ">> \o SubHsn(s, i + 11)
    ELSE <<s[i]>> \o SubHsn(s, i + 1)

\* re.sub(r'[^\w\s\-]', " ", s)
SubPunct(s) ==
    [i \in 1..Len(s) |-> IF IsWord(s[i]) \/ IsSpace(s[i]) \/ s[i] = "-" THEN s[i] ELSE " "]

RECURSIVE SubSpaces(_, _)
\* re.sub(r'\s+', " ", s), scanning from position i
SubSpaces(s, i) ==
    IF i > Len(s) THEN <<>>
    ELSE IF IsSpace(s[i])
         THEN IF i > 1 /\ IsSpace(s[i-1]) THEN SubSpaces(s, i + 1)
              ELSE <<" ">> \o SubSpaces(s, i + 1)
    ELSE <<s[i]>> \o SubSpaces(s, i + 1)

RECURSIVE LStrip(_)
LStrip(s) == IF s # <<>> /\ IsSpace(s[1]) THEN LStrip(Tail(s)) ELSE s

RECURSIVE RStrip(_)
RStrip(s) ==
    IF s # <<>> /\ IsSpace(s[Len(s)]) THEN RStrip(SubSeq(s, 1, Len(s) - 1)) ELSE s

\* str.strip()
Strip(s) == RStrip(LStrip(s))

RECURSIVE LStripHyphens(_)
LStripHyphens(s) == IF s # <<>> /\ s[1] = "-" THEN LStripHyphens(Tail(s)) ELSE s

RECURSIVE RStripHyphens(_)
RStripHyphens(s) ==
    IF s # <<>> /\ s[Len(s)] = "-" THEN RStripHyphens(SubSeq(s, 1, Len(s) - 1)) ELSE s

\* re.sub(r'^[-]+|[-]+$', '', s)
StripHyphens(s) == RStripHyphens(LStripHyphens(s))

\* the noise-pattern loop of normalize_string (lines 68-77)
RemoveNoise(s) ==
    SubSpaces(SubPunct(SubHsn(SubTax(SubDigits(s, 1), 1), 1)), 1)

\* normalize_string
normalize_string(s) ==
    IF s = <<>> THEN <<>>
    ELSE StripHyphens(Strip(SubSpaces(RemoveNoise(Lower(s)), 1)))

-----------------------------------------------------------------------------
(* Tokens                                                                  *)

RECURSIVE Split(_, _, _)
\* str.split(): the maximal runs of non-whitespace characters of s, in order;
\* cur is the run being read at position i
Split(s, i, cur) ==
    IF i > Len(s) THEN (IF cur = <<>> THEN <<>> ELSE <<cur>>)
    ELSE IF IsSpace(s[i])
         THEN (IF cur = <<>> THEN <<>> ELSE <<cur>>) \o Split(s, i + 1, <<>>)
    ELSE Split(s, i + 1, Append(cur, s[i]))

\* tokenize_string: the tokens of the normalized string that have 2 characters or more
tokenize_string(s) ==
    SelectSeq(Split(normalize_string(s), 1, <<>>), LAMBDA tok : Len(tok) >= 2)

\* set(list)
SetOf(seq) == {seq[i] : i \in 1..Len(seq)}

-----------------------------------------------------------------------------
(* Scores: exact fractions                                                 *)

RECURSIVE Gcd(_, _)
Gcd(a, b) == IF b = 0 THEN a ELSE Gcd(b, a % b)

\* the fraction n / d (n >= 0, d > 0) in lowest terms
Frac(n, d) == LET g == Gcd(n, d) IN [n |-> n \div g, d |-> d \div g]

Num(k) == Frac(k, 1)

\* a > b
Gt(a, b) == a.n * b.d > b.n * a.d

\* a >= b
Geq(a, b) == a.n * b.d >= b.n * a.d

\* a = b as numbers
Same(a, b) == a.n * b.d = b.n * a.d

\* min(a, b)
Min(a, b) == IF Gt(a, b) THEN b ELSE a

Max2(i, j) == IF i >= j THEN i ELSE j

-----------------------------------------------------------------------------
(* Catalog index                                                           *)

DatabaseFabric(name, p) == [material_name |-> name, default_purchase_price |-> p]

KeySet(index) == {index[i].key : i \in 1..Len(index)}

\* index[key] = fabric: a new key is appended, an existing key keeps its
\* position and takes the new value
DictSet(index, key, fabric) ==
    IF key \in KeySet(index)
    THEN [i \in 1..Len(index) |->
            IF index[i].key = key THEN [key |-> key, fabric |-> fabric] ELSE index[i]]
    ELSE Append(index, [key |-> key, fabric |-> fabric])

\* index[key]
DictGet(index, key) == index[CHOOSE i \in 1..Len(index) : index[i].key = key].fabric

RECURSIVE BuildFrom(_, _, _)
BuildFrom(fabrics, i, index) ==
    IF i > Len(fabrics) THEN index
    ELSE LET normalized == normalize_string(fabrics[i].material_name)
         IN  IF normalized # <<>>
             THEN BuildFrom(fabrics, i + 1, DictSet(index, normalized, fabrics[i]))
             ELSE BuildFrom(fabrics, i + 1, index)

\* FabricMatcher._build_index
build_index(fabrics) == BuildFrom(fabrics, 1, <<>>)

-----------------------------------------------------------------------------
(* Matching strategies.  A strategy folds the index in insertion order     *)
(* into acc = [best_match, best_score, raised]; best_match is <<>> for     *)
(* None and <<fabric>> otherwise.                                          *)

Acc0 == [best_match |-> <<>>, best_score |-> Num(0), raised |-> FALSE]

\* Better with >= in place of >: an equal score replaces the current best
BetterOrEqual(acc, fabric, score) ==
    IF Geq(score, acc.best_score)
    THEN [acc EXCEPT !.best_match = <<fabric>>, !.best_score = score]
    ELSE acc

\* if score > best_score: best_score = score; best_match = fabric
Better(acc, fabric, score) ==
    IF Gt(score, acc.best_score)
    THEN [acc EXCEPT !.best_match = <<fabric>>, !.best_score = score]
    ELSE acc

\* Thresholded without the threshold test: the best candidate is returned as it is
ThresholdedAlways(acc, threshold) ==
    IF acc.raised THEN [kind |-> "raise", fabric |-> <<>>, score |-> Num(0)]
    ELSE [kind |-> "some", fabric |-> acc.best_match, score |-> acc.best_score]

\* (best_match, best_score) if best_score >= threshold else None
Thresholded(acc, threshold) ==
    IF acc.raised THEN [kind |-> "raise", fabric |-> <<>>, score |-> Num(0)]
    ELSE IF Geq(acc.best_score, Num(threshold))
         THEN [kind |-> "some", fabric |-> acc.best_match, score |-> acc.best_score]
    ELSE [kind |-> "none", fabric |-> <<>>, score |-> Num(0)]

\* FabricMatcher.exact_match
exact_match(index, parsed_name) ==
    LET normalized_parsed == normalize_string(parsed_name)
    IN  IF normalized_parsed \in KeySet(index)
        THEN [kind |-> "some", fabric |-> <<DictGet(index, normalized_parsed)>>,
              score |-> Num(100)]
        ELSE [kind |-> "none", fabric |-> <<>>, score |-> Num(0)]

RECURSIVE SkipSpaces(_, _)
\* the first position at or after i that holds no whitespace
SkipSpaces(s, i) == IF i <= Len(s) /\ IsSpace(s[i]) THEN SkipSpaces(s, i + 1) ELSE i

RECURSIVE SkipLetters(_, _)
\* the first position at or after i that holds no letter
SkipLetters(s, i) == IF i <= Len(s) /\ IsLetter(s[i]) THEN SkipLetters(s, i + 1) ELSE i

\* re.sub(r'^[a-z]\s*-\s*', '', s, flags=re.IGNORECASE)
StripLetterHyphen(s) ==
    IF s # <<>> /\ IsLetter(s[1])
    THEN LET h == SkipSpaces(s, 2)
         IN  IF h <= Len(s) /\ s[h] = "-" THEN From(s, SkipSpaces(s, h + 1)) ELSE s
    ELSE s

\* re.sub(r'^[a-z]+\s*', '', s, flags=re.IGNORECASE)
StripLeadingWord(s) ==
    IF s # <<>> /\ IsLetter(s[1]) THEN From(s, SkipSpaces(s, SkipLetters(s, 1))) ELSE s

\* the prefix_patterns loop of prefix_based_match (lines 267-270)
db_name_clean(db_name) == StripLeadingWord(StripLetterHyphen(db_name))

PrefixTokens == {<<"a">>, <<"h">>, <<"s">>, <<"h","o","m","e">>,
                 <<"d","d","e","c","o","r">>, <<"s","u","j","a","n">>,
                 <<"a","g","o","r","a">>}

\* one iteration of the loop of prefix_based_match (lines 263-297)
PrefixStep(acc, db_name, fabric, normalized_parsed, parsed_tokens) ==
    LET db_tokens == SetOf(tokenize_string(db_name))
        clean == db_name_clean(db_name)
        hit == Contains(clean, normalized_parsed) \/ Contains(normalized_parsed, clean)
        longest == Max2(Len(clean), Len(normalized_parsed))
        score == Min(Num(95), Frac(85 * longest + 15 * Len(normalized_parsed), longest))
        acc1 == IF hit THEN Better(acc, fabric, score) ELSE acc
        db_tokens_clean == {tok \in db_tokens : Lower(tok) \notin PrefixTokens}
        overlap == Cardinality(parsed_tokens \cap db_tokens_clean)
        total == Cardinality(parsed_tokens \cup db_tokens_clean)
    IN  IF hit /\ longest = 0 THEN [acc EXCEPT !.raised = TRUE]   \* ZeroDivisionError
        ELSE IF parsed_tokens # {} /\ db_tokens # {} /\ db_tokens_clean # {} /\ overlap >= 2
             THEN Better(acc1, fabric, Frac(overlap * 95, total))
        ELSE acc1

RECURSIVE PrefixLoopFirstHit(_, _, _, _, _)
\* PrefixLoop leaving the loop at the first candidate that reaches the threshold
PrefixLoopFirstHit(index, i, acc, normalized_parsed, parsed_tokens) ==
    IF i > Len(index) \/ acc.raised \/ Geq(acc.best_score, Num(70)) THEN acc
    ELSE PrefixLoopFirstHit(index, i + 1,
                            PrefixStep(acc, index[i].key, index[i].fabric,
                                       normalized_parsed, parsed_tokens),
                            normalized_parsed, parsed_tokens)

RECURSIVE PrefixLoop(_, _, _, _, _)
\* the loop of prefix_based_match over db_index.items()
PrefixLoop(index, i, acc, normalized_parsed, parsed_tokens) ==
    IF i > Len(index) \/ acc.raised THEN acc
    ELSE PrefixLoop(index, i + 1,
                    PrefixStep(acc, index[i].key, index[i].fabric,
                               normalized_parsed, parsed_tokens),
                    normalized_parsed, parsed_tokens)

\* FabricMatcher.prefix_based_match
prefix_based_match(index, parsed_name) ==
    Thresholded(PrefixLoop(index, 1, Acc0, normalize_string(parsed_name),
                           SetOf(tokenize_string(parsed_name))), 70)

SubstringStopTokens == {<<"a">>, <<"h">>, <<"s">>, <<"h","o","m","e">>,
                        <<"d","d","e","c","o","r">>, <<"s","u","j","a","n">>}

\* one iteration of the loop of substring_match (lines 124-162)
SubstringStep(acc, db_name, fabric, normalized_parsed, parsed_tokens) ==
    LET db_tokens == SetOf(tokenize_string(db_name))
        acc1 == IF Contains(db_name, normalized_parsed)
                THEN Better(acc, fabric,
                            Min(Num(95), Frac(80 * Len(db_name) + 20 * Len(normalized_parsed),
                                              Len(db_name))))
                ELSE IF Contains(normalized_parsed, db_name)
                THEN Better(acc, fabric,
                            Min(Num(95), Frac(80 * Len(normalized_parsed) + 20 * Len(db_name),
                                              Len(normalized_parsed))))
                ELSE acc
        db_tokens_clean == {tok \in db_tokens : tok \notin SubstringStopTokens}
        overlap == Cardinality(parsed_tokens \cap db_tokens_clean)
        total == Cardinality(parsed_tokens \cup db_tokens_clean)
    IN  IF parsed_tokens # {} /\ db_tokens # {} /\ overlap > 0
        THEN Better(acc1, fabric, Frac(overlap * 90, total))
        ELSE acc1

RECURSIVE SubstringLoop(_, _, _, _, _)
SubstringLoop(index, i, acc, normalized_parsed, parsed_tokens) ==
    IF i > Len(index) THEN acc
    ELSE SubstringLoop(index, i + 1,
                       SubstringStep(acc, index[i].key, index[i].fabric,
                                     normalized_parsed, parsed_tokens),
                       normalized_parsed, parsed_tokens)

\* substring_match with the threshold 90 in place of 60
substring_match_strict(index, parsed_name) ==
    Thresholded(SubstringLoop(index, 1, Acc0, normalize_string(parsed_name),
                              SetOf(tokenize_string(parsed_name))), 90)

\* FabricMatcher.substring_match
substring_match(index, parsed_name) ==
    Thresholded(SubstringLoop(index, 1, Acc0, normalize_string(parsed_name),
                              SetOf(tokenize_string(parsed_name))), 60)

-----------------------------------------------------------------------------
(* Fuzzy strategy.  SequenceMatcher, jellyfish and fuzzywuzzy are library  *)
(* code: what they return for (normalized_parsed, db_name) is an input,    *)
(* lib[db_name], a record of the six similarity percentages and of the     *)
(* Levenshtein distance.                                                   *)

\* one iteration of the loop of fuzzy_match (lines 173-196)
FuzzyStep(acc, db_name, fabric, normalized_parsed, m) ==
    LET longest == Max2(Len(normalized_parsed), Len(db_name))
        lev == 100 * longest - 100 * m.levenshtein_distance      \* lev_score * longest
        lev_score == IF lev < 0 THEN 0 ELSE lev                  \* max(0, lev_score)
        others == m.seq_score + m.jaro_score + m.fuzz_ratio + m.fuzz_partial
                  + m.fuzz_token_sort + m.fuzz_token_set
        avg_score == Frac(others * longest + lev_score, 7 * longest)
    IN  Better(acc, fabric, avg_score)

RECURSIVE FuzzyLoop(_, _, _, _, _)
FuzzyLoop(index, i, acc, normalized_parsed, lib) ==
    IF i > Len(index) THEN acc
    ELSE FuzzyLoop(index, i + 1,
                   FuzzyStep(acc, index[i].key, index[i].fabric, normalized_parsed,
                             lib[index[i].key]),
                   normalized_parsed, lib)

\* FabricMatcher.fuzzy_match
fuzzy_match(index, parsed_name, lib) ==
    Thresholded(FuzzyLoop(index, 1, Acc0, normalize_string(parsed_name), lib), 70)

-----------------------------------------------------------------------------
(* Semantic strategy                                                       *)

fabric_types ==
    {<<"c","o","t","t","o","n">>,
     <<"s","i","l","k">>,
     <<"w","o","o","l">>,
     <<"l","i","n","e","n">>,
     <<"p","o","l","y","e","s","t","e","r">>,
     <<"r","a","y","o","n">>,
     <<"n","y","l","o","n">>,
     <<"a","c","r","y","l","i","c">>}

colors ==
    {<<"r","e","d">>,
     <<"b","l","u","e">>,
     <<"g","r","e","e","n">>,
     <<"y","e","l","l","o","w">>,
     <<"b","l","a","c","k">>,
     <<"w","h","i","t","e">>,
     <<"b","r","o","w","n">>,
     <<"p","i","n","k">>,
     <<"p","u","r","p","l","e">>,
     <<"o","r","a","n","g","e">>,
     <<"g","r","a","y">>,
     <<"g","r","e","y">>}

patterns ==
    {<<"s","t","r","i","p","e","d">>,
     <<"c","h","e","c","k","e","d">>,
     <<"f","l","o","r","a","l">>,
     <<"g","e","o","m","e","t","r","i","c">>,
     <<"s","o","l","i","d">>,
     <<"p","r","i","n","t">>,
     <<"e","m","b","r","o","i","d","e","r","y">>}

RECURSIVE KeywordCount(_, _, _)
\* the number of tokens of parsed_tokens[i..] that are in the keyword class
KeywordCount(parsed_tokens, i, class) ==
    IF i > Len(parsed_tokens) THEN 0
    ELSE (IF parsed_tokens[i] \in class THEN 1 ELSE 0)
         + KeywordCount(parsed_tokens, i + 1, class)

RECURSIVE KeywordHits(_, _, _, _)
\* the number of tokens of parsed_tokens[i..] that are in the keyword class
\* and among the catalog tokens
KeywordHits(parsed_tokens, i, class, db_tokens) ==
    IF i > Len(parsed_tokens) THEN 0
    ELSE (IF parsed_tokens[i] \in class /\ parsed_tokens[i] \in SetOf(db_tokens)
          THEN 1 ELSE 0)
         + KeywordHits(parsed_tokens, i + 1, class, db_tokens)

\* one iteration of the loop of semantic_match (lines 213-245)
SemanticStep(acc, db_name, fabric, parsed_tokens) ==
    LET db_tokens == tokenize_string(db_name)
        score == 25 * KeywordHits(parsed_tokens, 1, fabric_types, db_tokens)
                 + 20 * KeywordHits(parsed_tokens, 1, colors, db_tokens)
                 + 15 * KeywordHits(parsed_tokens, 1, patterns, db_tokens)
        total_keywords == KeywordCount(parsed_tokens, 1, fabric_types)
                          + KeywordCount(parsed_tokens, 1, colors)
                          + KeywordCount(parsed_tokens, 1, patterns)
    IN  IF total_keywords > 0
        THEN Better(acc, fabric, Frac(score * 100, total_keywords))
        ELSE acc

RECURSIVE SemanticLoop(_, _, _, _)
SemanticLoop(index, i, acc, parsed_tokens) ==
    IF i > Len(index) THEN acc
    ELSE SemanticLoop(index, i + 1,
                      SemanticStep(acc, index[i].key, index[i].fabric, parsed_tokens),
                      parsed_tokens)

\* FabricMatcher.semantic_match
semantic_match(index, parsed_name) ==
    Thresholded(SemanticLoop(index, 1, Acc0, tokenize_string(parsed_name)), 50)

-----------------------------------------------------------------------------
(* The cascade                                                             *)

\* FabricMatcher._create_match_result; status is "returned"
create_match_result(parsed_name, db_fabric, score, algorithm, confidence) ==
    [status |-> "returned",
     parsed_name |-> parsed_name,
     database_fabric |-> db_fabric,
     match_score |-> score,
     match_algorithm |-> algorithm,
     confidence_level |-> confidence,
     suggested_price |-> IF db_fabric # <<>> THEN <<db_fabric[1].default_purchase_price>>
                         ELSE <<>>]

\* an exception leaves match_fabric
Raised(parsed_name) ==
    [status |-> "raised",
     parsed_name |-> parsed_name,
     database_fabric |-> <<>>,
     match_score |-> Num(0),
     match_algorithm |-> "NONE",
     confidence_level |-> "NONE",
     suggested_price |-> <<>>]

\* HighOrMedium with > in place of >=
HighOrMediumStrict(score) == IF Gt(score, Num(85)) THEN "HIGH" ELSE "MEDIUM"

\* confidence = "HIGH" if score >= 85.0 else "MEDIUM"
HighOrMedium(score) == IF Geq(score, Num(85)) THEN "HIGH" ELSE "MEDIUM"

\* confidence = "MEDIUM" if score >= 70.0 else "LOW"
MediumOrLow(score) == IF Geq(score, Num(70)) THEN "MEDIUM" ELSE "LOW"

\* match_fabric trying the substring strategy before the prefix strategy
match_fabric_substring_first(index, parsed_name, lib) ==
    LET exact_result == exact_match(index, parsed_name)
        prefix_result == prefix_based_match(index, parsed_name)
        substring_result == substring_match(index, parsed_name)
        fuzzy_result == fuzzy_match(index, parsed_name, lib)
        semantic_result == semantic_match(index, parsed_name)
    IN  IF exact_result.kind = "some"
        THEN create_match_result(parsed_name, exact_result.fabric, exact_result.score,
                                 "EXACT_MATCH", "HIGH")
        ELSE IF substring_result.kind = "some"
        THEN create_match_result(parsed_name, substring_result.fabric,
                                 substring_result.score,
                                 "SUBSTRING_MATCH", HighOrMedium(substring_result.score))
        ELSE IF prefix_result.kind = "raise" THEN Raised(parsed_name)
        ELSE IF prefix_result.kind = "some"
        THEN create_match_result(parsed_name, prefix_result.fabric, prefix_result.score,
                                 "PREFIX_BASED_MATCH", HighOrMedium(prefix_result.score))
        ELSE IF fuzzy_result.kind = "some"
        THEN create_match_result(parsed_name, fuzzy_result.fabric, fuzzy_result.score,
                                 "FUZZY_MATCH", HighOrMedium(fuzzy_result.score))
        ELSE IF semantic_result.kind = "some"
        THEN create_match_result(parsed_name, semantic_result.fabric, semantic_result.score,
                                 "SEMANTIC_MATCH", MediumOrLow(semantic_result.score))
        ELSE create_match_result(parsed_name, <<>>, Num(0), "NO_MATCH", "NO_MATCH")

\* FabricMatcher.match_fabric
match_fabric(index, parsed_name, lib) ==
    LET exact_result == exact_match(index, parsed_name)
        prefix_result == prefix_based_match(index, parsed_name)
        substring_result == substring_match(index, parsed_name)
        fuzzy_result == fuzzy_match(index, parsed_name, lib)
        semantic_result == semantic_match(index, parsed_name)
    IN  IF exact_result.kind = "some"
        THEN create_match_result(parsed_name, exact_result.fabric, exact_result.score,
                                 "EXACT_MATCH", "HIGH")
        ELSE IF prefix_result.kind = "raise" THEN Raised(parsed_name)
        ELSE IF prefix_result.kind = "some"
        THEN create_match_result(parsed_name, prefix_result.fabric, prefix_result.score,
                                 "PREFIX_BASED_MATCH", HighOrMedium(prefix_result.score))
        ELSE IF substring_result.kind = "some"
        THEN create_match_result(parsed_name, substring_result.fabric,
                                 substring_result.score,
                                 "SUBSTRING_MATCH", HighOrMedium(substring_result.score))
        ELSE IF fuzzy_result.kind = "some"
        THEN create_match_result(parsed_name, fuzzy_result.fabric, fuzzy_result.score,
                                 "FUZZY_MATCH", HighOrMedium(fuzzy_result.score))
        ELSE IF semantic_result.kind = "some"
        THEN create_match_result(parsed_name, semantic_result.fabric, semantic_result.score,
                                 "SEMANTIC_MATCH", MediumOrLow(semantic_result.score))
        ELSE create_match_result(parsed_name, <<>>, Num(0), "NO_MATCH", "NO_MATCH")

-----------------------------------------------------------------------------
(* CSV matcher of test_basic_ocr.py                                        *)

\* a + b
Add(a, b) == Frac(a.n * b.d + b.n * a.d, a.d * b.d)

\* a * b
Mul(a, b) == Frac(a.n * b.n, a.d * b.d)

\* clean_fabric_name: lowercase, spaces and every non-word character removed
clean_fabric_name(name) == SelectSeq(Lower(name), LAMBDA c : IsWord(c))

\* remove_csv_prefix
remove_csv_prefix(name) ==
    IF Len(name) >= 4 /\ SubSeq(name, 1, 4) = <<"A"," ","-"," ">> THEN From(name, 5) ELSE name

\* one row of load_csv_fabrics
CsvRow(name, p) ==
    [original_name |-> name, cleaned_name |-> clean_fabric_name(name), default_price |-> p]

\* calculate_similarity; matched is the number of matching characters that
\* SequenceMatcher finds, ratio() being 2 * matched / (len(str1) + len(str2))
calculate_similarity(str1, str2, matched) ==
    LET seq_similarity == IF Len(str1) + Len(str2) = 0 THEN Num(1)
                          ELSE Frac(2 * matched, Len(str1) + Len(str2))
        char_overlap == IF str1 # <<>> /\ str2 # <<>>
                        THEN Frac(Cardinality(SetOf(str1) \cap SetOf(str2)),
                                  Cardinality(SetOf(str1) \cup SetOf(str2)))
                        ELSE Num(0)
        words1 == SetOf(Split(Lower(str1), 1, <<>>))
        words2 == SetOf(Split(Lower(str2), 1, <<>>))
        word_similarity == IF " " \in SetOf(str1) /\ " " \in SetOf(str2)
                              /\ words1 # {} /\ words2 # {}
                           THEN Frac(Cardinality(words1 \cap words2),
                                     Cardinality(words1 \cup words2))
                           ELSE Num(0)
    IN  Add(Add(Mul(seq_similarity, Frac(5, 10)), Mul(char_overlap, Frac(3, 10))),
            Mul(word_similarity, Frac(2, 10)))

CsvAcc0 == [best_match |-> <<>>, best_score |-> Num(0), raised |-> FALSE]

\* if score > best_score: best_score = score; best_match = {...}
CsvBetter(acc, fabric, score, method) ==
    IF Gt(score, acc.best_score)
    THEN [acc EXCEPT !.best_score = score,
                     !.best_match = <<[fabric |-> fabric, score |-> score, method |-> method]>>]
    ELSE acc

\* one iteration of the loop of find_csv_fabric_match (lines 200-253)
CsvStep(acc, fabric, parsed_cleaned, matched, threshold) ==
    LET csv_cleaned_no_prefix == clean_fabric_name(remove_csv_prefix(fabric.original_name))
        lp == Len(parsed_cleaned)
        lc == Len(csv_cleaned_no_prefix)
        base_score == Frac(lp * 100, lc)
        acc1 == IF Contains(csv_cleaned_no_prefix, parsed_cleaned)
                THEN CsvBetter(acc, fabric,
                               IF lp <= 10 THEN Min(Num(95), Add(base_score, Num(60)))
                               ELSE base_score,
                               "Direct Substring (No Prefix)")
                ELSE IF Contains(parsed_cleaned, csv_cleaned_no_prefix)
                THEN CsvBetter(acc, fabric, Frac(lc * 100, lp),
                               "Reverse Substring (No Prefix)")
                ELSE acc
        similarity == calculate_similarity(parsed_cleaned, csv_cleaned_no_prefix, matched)
    IN  IF Contains(csv_cleaned_no_prefix, parsed_cleaned) /\ lc = 0
        THEN [acc EXCEPT !.raised = TRUE]                        \* ZeroDivisionError
        ELSE IF Geq(similarity, threshold)
             THEN CsvBetter(acc1, fabric, Mul(similarity, Num(100)), "Fuzzy Match")
        ELSE acc1

RECURSIVE CsvLoop(_, _, _, _, _, _)
CsvLoop(fabrics, i, acc, parsed_cleaned, lib, threshold) ==
    IF i > Len(fabrics) \/ acc.raised THEN acc
    ELSE CsvLoop(fabrics, i + 1,
                 CsvStep(acc, fabrics[i], parsed_cleaned, lib[i], threshold),
                 parsed_cleaned, lib, threshold)

\* threshold: float = 0.5
DefaultThreshold == Frac(5, 10)

\* find_csv_fabric_match; lib[i] is what SequenceMatcher finds for the i-th row
find_csv_fabric_match(parsed_name, fabrics, lib, threshold) ==
    IF fabrics = <<>>
    THEN [status |-> "returned", parsed_name |-> parsed_name, match |-> <<>>]
    ELSE LET parsed_cleaned == clean_fabric_name(parsed_name)
             acc == CsvLoop(fabrics, 1, CsvAcc0, parsed_cleaned, lib, threshold)
             min_threshold == IF Len(parsed_cleaned) <= 10 THEN 30 ELSE 50
         IN  IF acc.raised
             THEN [status |-> "raised", parsed_name |-> parsed_name, match |-> <<>>]
             ELSE [status |-> "returned", parsed_name |-> parsed_name,
                   match |-> IF Geq(acc.best_score, Num(min_threshold))
                             THEN acc.best_match ELSE <<>>]

-----------------------------------------------------------------------------
(* Price comparison                                                        *)

Abs(x) == IF x < 0 THEN -x ELSE x

\* the status chain of analyze_invoice_api (api.py lines 184-195)
price_status_api(difference_percentage) ==
    IF Same(difference_percentage, Num(0)) THEN "EXACT MATCH"
    ELSE IF Geq(Num(2), difference_percentage) THEN "MINOR DIFFERENCE"
    ELSE IF Geq(Num(5), difference_percentage) THEN "SMALL DIFFERENCE"
    ELSE IF Geq(Num(10), difference_percentage) THEN "MODERATE DIFFERENCE"
    ELSE IF Geq(Num(25), difference_percentage) THEN "SIGNIFICANT DIFFERENCE"
    ELSE "MAJOR DIFFERENCE"

\* what analyze_invoice_api does for a matched line (api.py lines 176-217):
\* the price analysis and the status of the item; item_rate is <<>> for None
price_analysis_api(item_rate, database_price) ==
    LET invoice_rate == IF item_rate = <<>> \/ item_rate[1] = 0 THEN 0 ELSE item_rate[1]
        difference == Abs(invoice_rate - database_price)
        difference_percentage == IF database_price > 0
                                 THEN Frac(difference * 100, database_price) ELSE Num(0)
    IN  [price_analysis |-> <<[invoice_rate |-> invoice_rate,
                               database_price |-> database_price,
                               difference |-> difference,
                               difference_percentage |-> difference_percentage,
                               price_status |-> price_status_api(difference_percentage)]>>,
         status |-> price_status_api(difference_percentage)]

\* the status chain of analyze_invoice (app.py lines 109-126), without the
\* pictograms in front of the texts
price_status_app(price_diff_pct) ==
    IF Same(price_diff_pct, Num(0)) THEN "EXACT MATCH"
    ELSE IF Geq(Num(2), price_diff_pct) THEN "MINOR DIFFERENCE"
    ELSE IF Geq(Num(5), price_diff_pct) THEN "SMALL DIFFERENCE"
    ELSE IF Geq(Num(10), price_diff_pct) THEN "MODERATE DIFFERENCE"
    ELSE IF Geq(Num(25), price_diff_pct) THEN "SIGNIFICANT DIFFERENCE"
    ELSE "MAJOR DIFFERENCE"

\* what analyze_invoice does for a matched line (app.py lines 104-140): the
\* price analysis, missing when item.rate or csv_price is falsy, and the
\* status of the item
price_analysis_app(item_rate, csv_price) ==
    IF item_rate # <<>> /\ item_rate[1] # 0 /\ csv_price # 0
    THEN LET price_diff == Abs(item_rate[1] - csv_price)
             price_diff_pct == Frac(price_diff * 100, csv_price)
         IN  [price_analysis |-> <<[invoice_rate |-> item_rate[1],
                                    database_price |-> csv_price,
                                    difference |-> price_diff,
                                    difference_percentage |-> price_diff_pct,
                                    price_status |-> price_status_app(price_diff_pct)]>>,
              status |-> price_status_app(price_diff_pct)]
    ELSE [price_analysis |-> <<>>, status |-> "MATCHED"]

\* the price fields _create_match_result computes for a matched entry
\* (fabric_matcher.py lines 345-351); <<>> is None
match_result_prices(item_rate, suggested_price) ==
    IF suggested_price # 0 /\ item_rate # <<>> /\ item_rate[1] # 0
    THEN LET price_difference == Abs(item_rate[1] - suggested_price)
         IN  [suggested_price |-> <<suggested_price>>,
              price_difference |-> <<price_difference>>,
              price_difference_percent |-> <<Frac(price_difference * 100, suggested_price)>>]
    ELSE [suggested_price |-> <<suggested_price>>,
          price_difference |-> <<>>,
          price_difference_percent |-> <<>>]

-----------------------------------------------------------------------------
(* Regular expressions of the re module, as far as the invoice parser uses *)
(* them.  A pattern is a sequence of nodes.  The matcher of re backtracks:  *)
(* alternatives are tried in order, a greedy repetition tries one more     *)
(* round first, a lazy one tries to stop first, and the first way that     *)
(* lets the rest of the pattern match is the match.  Run keeps the ways    *)
(* still open in that order, so that the first one left is re's match.     *)

\* \s on the characters of an OCR text
WhiteSpace == {" ", "\t", "\n", "\r"}

\* \w
WordChars == UpperChars \cup LowerChars \cup Digits \cup {"_"}

Letters == UpperChars \cup LowerChars

\* a pattern is a sequence of nodes; this one is a character class [...]
Cls(S) == <<[t |-> "cls", set |-> S, neg |-> FALSE]>>

\* a negated character class [^...]
NotCls(S) == <<[t |-> "cls", set |-> S, neg |-> TRUE]>>

RECURSIVE Cat(_)
\* the patterns of `items` one after the other
Cat(items) == IF Len(items) = 0 THEN <<>> ELSE Head(items) \o Cat(Tail(items))

\* the first of the patterns of `items` that lets the rest match
Alt(items) == <<[t |-> "alt", items |-> items]>>

\* body{min,max} for a character class `body`; max = -1 is no upper limit
Rep(body, min, max, greedy) ==
    <<[t |-> "rep", body |-> body, min |-> min, max |-> max, greedy |-> greedy]>>

Star(body) == Rep(body, 0, -1, TRUE)

Plus(body) == Rep(body, 1, -1, TRUE)

\* body? : the body if the rest matches after it, nothing otherwise
Opt(body) == <<[t |-> "alt", items |-> <<body, <<>>>>]>>

LazyPlus(body) == Rep(body, 1, -1, FALSE)

Times(body, n) == Rep(body, n, n, TRUE)

\* the capturing group number g
Grp(g, body) == <<[t |-> "open", g |-> g]>> \o body \o <<[t |-> "close", g |-> g]>>

\* ^, $ and \b
Bol == <<[t |-> "bol"]>>

Eol == <<[t |-> "eol"]>>

WordB == <<[t |-> "wb"]>>

\* the end of the string
End == <<[t |-> "end"]>>

\* both cases of a letter, the character itself otherwise
BothCases(c) ==
    IF c \in UpperChars THEN {c, ToLower[c]}
    ELSE IF c \in LowerChars THEN {c, CHOOSE u \in UpperChars : ToLower[u] = c}
    ELSE {c}

\* a literal text under re.IGNORECASE
LitI(text) == <<[t |-> "lit", sets |-> [k \in 1..Len(text) |-> BothCases(text[k])]]>>

\* a literal text
Lit(text) == <<[t |-> "lit", sets |-> [k \in 1..Len(text) |-> {text[k]}]]>>

\* \d, \s, \d+(?:\.\d+)? and [\d,]+(?:\.\d+)?
ReDigit == Cls(Digits)

ReSpace == Cls(WhiteSpace)

ReNumber == Cat(<<Plus(ReDigit), Opt(Cat(<<Cls({"."}), Plus(ReDigit)>>))>>)

ReAmount == Cat(<<Plus(Cls(Digits \cup {","})), Opt(Cat(<<Cls({"."}), Plus(ReDigit)>>))>>)

MaxGroups == 5

NoCaps == [g \in 1..MaxGroups |-> <<0, 0>>]

NoMatch == [ok |-> FALSE, start |-> 0, end |-> 0, caps |-> NoCaps]

\* \b between the positions i-1 and i of s, \w being WordChars
WordBoundaryAt(s, i) ==
    LET before == i > 1 /\ s[i-1] \in WordChars
        after  == i <= Len(s) /\ s[i] \in WordChars
    IN  before # after

\* how many characters of s from the position i on are in the class, up to
\* `limit` of them (-1: no limit)
RunLength(s, i, class, limit) ==
    IF i > Len(s) \/ (s[i] \in class.set) = class.neg THEN 0
    ELSE
    LET available == Len(s) - i + 1
        most == IF limit < 0 \/ limit > available THEN available ELSE limit
        others == {k \in 1..most : (s[i + k - 1] \in class.set) = class.neg}
    IN  IF others = {} THEN most
        ELSE (CHOOSE k \in others : \A j \in others : k <= j) - 1

RECURSIVE ConcatAll(_, _, _)
\* seqs[lo] \o ... \o seqs[hi]
ConcatAll(seqs, lo, hi) ==
    IF lo > hi THEN <<>>
    ELSE IF lo = hi THEN seqs[lo]
    ELSE LET mid == (lo + hi) \div 2
         IN  ConcatAll(seqs, lo, mid) \o ConcatAll(seqs, mid + 1, hi)

\* the positions after a repeated character class from the position i on, in
\* the order re tries them: the longest run first (greedy) or the shortest
RepEnds(node, s, i) ==
    LET most == RunLength(s, i, node.body[1], node.max)
    IN  IF most < node.min THEN <<>>
        ELSE [j \in 1..(most - node.min + 1) |->
                i + (IF node.greedy THEN most - j + 1 ELSE node.min + j - 1)]

RECURSIVE Run(_, _, _, _, _, _)
RECURSIVE Step(_, _, _, _)
\* One node of a pattern, matched from the state th = [pos, caps] of the
\* matcher (started at th.start): the states after the node, in the order in which re tries them.
Step(node, s, th, multiline) ==
    LET i == th.pos
        stay == <<th>>
    IN  CASE node.t = "cls" ->
                IF i <= Len(s) /\ ((s[i] \in node.set) # node.neg)
                THEN <<[th EXCEPT !.pos = i + 1]>>
                ELSE <<>>
          [] node.t = "lit" ->
                IF /\ i + Len(node.sets) - 1 <= Len(s)
                   /\ \A k \in 1..Len(node.sets) : s[i + k - 1] \in node.sets[k]
                THEN <<[th EXCEPT !.pos = i + Len(node.sets)]>>
                ELSE <<>>
          [] node.t = "alt" ->
                \* the alternatives in their order
                ConcatAll([k \in 1..Len(node.items) |->
                             Run(node.items[k], 1, Len(node.items[k]), s, stay, multiline)],
                          1, Len(node.items))
          [] node.t = "rep" ->
                LET ends == RepEnds(node, s, i)
                IN  [j \in 1..Len(ends) |-> [th EXCEPT !.pos = ends[j]]]
          [] node.t = "open" -> <<[th EXCEPT !.caps[node.g] = <<i, i>>]>>
          [] node.t = "close" -> <<[th EXCEPT !.caps[node.g] = <<@[1], i>>]>>
          [] node.t = "bol" ->
                IF i = 1 \/ (multiline /\ s[i-1] = "\n") THEN stay ELSE <<>>
          [] node.t = "eol" ->
                IF \/ i = Len(s) + 1
                   \/ (i = Len(s) /\ s[i] = "\n")
                   \/ (multiline /\ s[i] = "\n")
                THEN stay ELSE <<>>
          [] node.t = "end" -> IF i = Len(s) + 1 THEN stay ELSE <<>>
          [] node.t = "wb" -> IF WordBoundaryAt(s, i) THEN stay ELSE <<>>

\* The nodes lo..hi of a pattern, one after the other, matched from each of
\* the states `threads`: the states after them, the one re reaches first at
\* the head.  (The first half of the nodes, then the second half.)
Run(nodes, lo, hi, s, threads, multiline) ==
    IF threads = <<>> \/ lo > hi THEN threads
    ELSE IF lo = hi
    THEN ConcatAll([k \in 1..Len(threads) |-> Step(nodes[lo], s, threads[k], multiline)],
                   1, Len(threads))
    ELSE LET mid == (lo + hi) \div 2
         IN  Run(nodes, mid + 1, hi, s, Run(nodes, lo, mid, s, threads, multiline),
                 multiline)

\* the match the matcher reaches first of the states `threads`
FirstMatch(threads) ==
    IF threads = <<>> THEN NoMatch
    ELSE [ok |-> TRUE, start |-> threads[1].start, end |-> threads[1].pos,
          caps |-> threads[1].caps]

\* re.match(pattern, s) at the position i
MatchAt(pattern, s, i, multiline) ==
    FirstMatch(Run(pattern, 1, Len(pattern), s,
                   <<[pos |-> i, start |-> i, caps |-> NoCaps]>>, multiline))

RECURSIVE CanMatch(_, _)
\* the characters every match of the pattern takes are among chars: some
\* character of each class, each letter of each literal, one branch of each
\* alternation (no string without them holds a match)
CanMatch(pattern, chars) ==
    \A k \in 1..Len(pattern) :
        LET node == pattern[k]
            Has(class) == IF class.neg THEN chars \ class.set # {}
                          ELSE chars \cap class.set # {}
        IN  CASE node.t = "cls" -> Has(node)
              [] node.t = "lit" -> \A p \in 1..Len(node.sets) : chars \cap node.sets[p] # {}
              [] node.t = "rep" -> node.min = 0 \/ Has(node.body[1])
              [] node.t = "alt" -> \E q \in 1..Len(node.items) : CanMatch(node.items[q], chars)
              [] OTHER -> TRUE

\* re.search(pattern, s) looking from the position i on: the leftmost match,
\* the places to start at being tried from left to right
SearchFrom(pattern, s, i, multiline) ==
    IF ~CanMatch(pattern, {s[k] : k \in i..Len(s)}) THEN NoMatch
    ELSE FirstMatch(Run(pattern, 1, Len(pattern), s,
                        [j \in 1..(Len(s) + 2 - i) |->
                           [pos |-> i + j - 1, start |-> i + j - 1, caps |-> NoCaps]],
                        multiline))

\* re.search(pattern, s)
Search(pattern, s) == SearchFrom(pattern, s, 1, FALSE)

\* re.fullmatch(pattern, s)
FullMatch(pattern, s) == MatchAt(Cat(<<pattern, End>>), s, 1, FALSE).ok

\* match.group(g)
Group(s, m, g) == SubSeq(s, m.caps[g][1], m.caps[g][2] - 1)

RECURSIVE SubFrom(_, _, _, _)
\* re.sub(pattern, repl, s) for the part of s from the position i on
SubFrom(pattern, repl, s, i) ==
    LET Replaced(m) ==
            IF ~m.ok THEN From(s, i)
            ELSE IF m.end = m.start
            THEN SubSeq(s, i, m.start - 1) \o repl \o
                 (IF m.start <= Len(s)
                  THEN <<s[m.start]>> \o SubFrom(pattern, repl, s, m.start + 1)
                  ELSE <<>>)
            ELSE SubSeq(s, i, m.start - 1) \o repl \o SubFrom(pattern, repl, s, m.end)
    IN  Replaced(SearchFrom(pattern, s, i, FALSE))

\* re.sub(pattern, repl, s); the empty string has one place for a match
Sub(pattern, repl, s) ==
    IF s = <<>> THEN (IF MatchAt(pattern, s, 1, FALSE).ok THEN repl ELSE <<>>)
    ELSE SubFrom(pattern, repl, s, 1)

-----------------------------------------------------------------------------
(* Python str and float primitives used by the invoice parser              *)

RECURSIVE LStripWs(_)
LStripWs(s) == IF s # <<>> /\ s[1] \in WhiteSpace THEN LStripWs(Tail(s)) ELSE s

RECURSIVE RStripWs(_)
RStripWs(s) ==
    IF s # <<>> /\ s[Len(s)] \in WhiteSpace THEN RStripWs(SubSeq(s, 1, Len(s) - 1)) ELSE s

\* str.strip()
StripWs(s) == RStripWs(LStripWs(s))

\* the j-th smallest element of a set of numbers
Nth(S, j) == CHOOSE k \in S : Cardinality({other \in S : other < k}) = j - 1

\* str.split(sep) for a separator of one character: the parts between the
\* separators, empty parts included
SplitOn(s, sep) ==
    LET breaks == {k \in 1..Len(s) : s[k] = sep}
        n == Cardinality(breaks)
    IN  [j \in 1..(n + 1) |->
            SubSeq(s, IF j = 1 THEN 1 ELSE Nth(breaks, j - 1) + 1,
                      IF j = n + 1 THEN Len(s) ELSE Nth(breaks, j) - 1)]

\* text.split('\n')
SplitLines(text) == SplitOn(text, "\n")

\* str.split(): the words between runs of whitespace
SplitWs(s) ==
    LET firsts == {k \in 1..Len(s) : s[k] \notin WhiteSpace /\ (k = 1 \/ s[k-1] \in WhiteSpace)}
        lasts == {k \in 1..Len(s) :
                    s[k] \notin WhiteSpace /\ (k = Len(s) \/ s[k+1] \in WhiteSpace)}
    IN  [j \in 1..Cardinality(firsts) |-> SubSeq(s, Nth(firsts, j), Nth(lasts, j))]

RECURSIVE JoinWith(_, _)
\* sep.join(parts)
JoinWith(sep, parts) ==
    IF parts = <<>> THEN <<>>
    ELSE IF Len(parts) = 1 THEN parts[1]
    ELSE parts[1] \o sep \o JoinWith(sep, Tail(parts))

\* s.replace(',', '')
RemoveCommas(s) == SelectSeq(s, LAMBDA c : c # ",")

DigitSeq == <<"0", "1", "2", "3", "4", "5", "6", "7", "8", "9">>

DigitVal(c) == (CHOOSE k \in 1..10 : DigitSeq[k] = c) - 1

RECURSIVE IntOf(_)
\* the number written by a sequence of digits
IntOf(ds) == IF ds = <<>> THEN 0 ELSE IntOf(SubSeq(ds, 1, Len(ds) - 1)) * 10 + DigitVal(ds[Len(ds)])

RECURSIVE Pow10(_)
Pow10(n) == IF n = 0 THEN 1 ELSE 10 * Pow10(n - 1)

\* float(s) for the decimal notations [+-]digits[.digits], [+-].digits and
\* [+-]digits. between optional whitespace; every other text is a ValueError
\* (ok = FALSE).  The value is the exact decimal.
ParseFloat(str) ==
    LET Magnitude(body, dots, digits) ==
            Frac(IntOf(digits),
                 Pow10(IF dots = {} THEN 0 ELSE Len(body) - (CHOOSE k \in dots : TRUE)))
        WellFormed(body, dots, digits) ==
            /\ \A k \in 1..Len(body) : body[k] \in Digits \cup {"."}
            /\ Cardinality(dots) <= 1
            /\ digits # <<>>
        Value(negative, body, dots, digits) ==
            IF WellFormed(body, dots, digits)
            THEN [ok |-> TRUE,
                  val |-> IF negative THEN [Magnitude(body, dots, digits) EXCEPT !.n = -@]
                          ELSE Magnitude(body, dots, digits)]
            ELSE [ok |-> FALSE, val |-> Num(0)]
        Unsigned(negative, body) ==
            Value(negative, body, {k \in 1..Len(body) : body[k] = "."},
                  SelectSeq(body, LAMBDA c : c \in Digits))
        Stripped(t) ==
            IF t # <<>> /\ t[1] \in {"+", "-"} THEN Unsigned(t[1] = "-", Tail(t))
            ELSE Unsigned(FALSE, t)
    IN  Stripped(StripWs(str))

-----------------------------------------------------------------------------
(* Name cleaners of UniversalInvoiceParser                                 *)

ReLetter == Cls(Letters)

\* [A-Z]{2}\d{2}[A-Z]{5}\d[A-Z]\d[A-Z]\d under re.I
ReGstin ==
    Cat(<<Times(ReLetter, 2), Times(ReDigit, 2), Times(ReLetter, 5), ReDigit, ReLetter,
          ReDigit, ReLetter, ReDigit>>)

\* \b5%\b
ReTax == Cat(<<WordB, Lit(<<"5", "%">>), WordB>>)

\* ^[-]+|[-]+$
ReEdgeHyphens ==
    Alt(<<Cat(<<Bol, Plus(Cls({"-"}))>>), Cat(<<Plus(Cls({"-"})), Eol>>)>>)

\* the noise_patterns of _clean_sarom_fabric_name (lines 808-821)
SaromNoisePatterns ==
    <<ReTax,
      Cat(<<WordB, Times(ReDigit, 8), WordB>>),
      Cat(<<WordB, Rep(ReDigit, 6, 7, TRUE), WordB>>),
      Cat(<<WordB, Rep(ReDigit, 1, 2, TRUE), WordB>>),
      ReGstin,
      Cat(<<WordB, Rep(ReLetter, 8, -1, TRUE), Rep(ReDigit, 2, -1, TRUE), WordB>>),
      Cat(<<WordB, Rep(ReDigit, 2, -1, TRUE), Rep(ReLetter, 3, -1, TRUE),
            Rep(ReDigit, 2, -1, TRUE), WordB>>),
      Cat(<<WordB, Rep(ReLetter, 4, -1, TRUE), Rep(ReDigit, 2, -1, TRUE),
            Rep(ReLetter, 2, -1, TRUE), Rep(ReDigit, 2, -1, TRUE), WordB>>),
      Cat(<<WordB, Rep(ReLetter, 6, -1, TRUE), Rep(ReDigit, 2, -1, TRUE), WordB>>),
      NotCls(WordChars \cup WhiteSpace \cup {"-"}),
      Plus(ReSpace),
      Alt(<<Cat(<<Bol, Plus(ReSpace)>>), Cat(<<Plus(ReSpace), Eol>>)>>)>>

RECURSIVE SubAll(_, _, _, _, _)
\* for pattern in noise_patterns[lo..hi]: name = re.sub(pattern, repl, name)
\* (the first half of the patterns, then the second half on what they left)
SubAll(noise_patterns, lo, hi, repl, name) ==
    IF lo > hi THEN name
    ELSE IF lo = hi THEN Sub(noise_patterns[lo], repl, name)
    ELSE LET mid == (lo + hi) \div 2
             half == SubAll(noise_patterns, lo, mid, repl, name)
         IN  IF half = name THEN SubAll(noise_patterns, mid + 1, hi, repl, name)
             ELSE SubAll(noise_patterns, mid + 1, hi, repl, half)

\* UniversalInvoiceParser._clean_sarom_fabric_name
clean_sarom_fabric_name(name) ==
    LET Cleaned(cleaned) ==
            IF Len(cleaned) >= 3 /\ ~FullMatch(Plus(Cls(Digits \cup WhiteSpace)), cleaned)
            THEN cleaned
            ELSE <<>>
        Spaced(spaced) ==
            IF spaced = <<>> THEN <<>>                            \* nothing is left
            ELSE Cleaned(StripWs(Sub(ReEdgeHyphens, <<>>, spaced)))
        Noiseless(noiseless) ==
            IF noiseless = <<>> THEN <<>>                         \* nothing is left
            ELSE Spaced(StripWs(Sub(Plus(ReSpace), <<" ">>, noiseless)))
    IN  IF name = <<>> THEN <<>>
        ELSE Noiseless(SubAll(SaromNoisePatterns, 1, Len(SaromNoisePatterns), <<" ">>, name))

\* the words of the first noise pattern of _clean_fabric_name (line 1032)
NoiseWords ==
    <<LitI(<<"G","S","T","I","N">>),
      LitI(<<"G","S","T">>),
      LitI(<<"I","G","S","T">>),
      LitI(<<"C","G","S","T">>),
      LitI(<<"S","G","S","T">>),
      LitI(<<"T","a","x">>),
      LitI(<<"T","o","t","a","l">>),
      Cat(<<LitI(<<"S","u","b">>), Opt(Cls({"-", " "})), LitI(<<"t","o","t","a","l">>)>>),
      LitI(<<"G","r","a","n","d"," ","T","o","t","a","l">>),
      LitI(<<"I","n","v","o","i","c","e">>),
      LitI(<<"B","i","l","l">>),
      LitI(<<"A","d","d","r","e","s","s">>),
      LitI(<<"S","h","i","p"," ","T","o">>),
      LitI(<<"P","I","N">>),
      LitI(<<"P","i","n","c","o","d","e">>),
      LitI(<<"P","h","o","n","e">>),
      LitI(<<"M","o","b","i","l","e">>),
      LitI(<<"E","m","a","i","l">>)>>

\* the noise_patterns of _clean_fabric_name (lines 1031-1040); RUPEE and
\* SECTION stand for the rupee sign and the section sign
FabricNoisePatterns ==
    <<Cat(<<WordB, Grp(1, Alt(NoiseWords)), WordB>>),
      ReGstin,
      Cat(<<WordB, Times(ReDigit, 6), WordB>>),
      ReTax,
      Cat(<<Cls({"|"}), Star(ReSpace), Cls({"%"}), Star(NotCls({"|"})), Eol>>),
      Cat(<<Bol, Plus(ReDigit), Plus(ReSpace)>>),
      Cat(<<Plus(ReSpace), Cls({"$"}), Plus(ReDigit), Star(ReSpace)>>),
      Cat(<<Plus(ReSpace), Cls({"SECTION"}), Plus(ReDigit), Star(ReSpace)>>)>>

\* ^[:\-\s|]+|[:\-\s|]+$
ReEdgeSeparators ==
    LET sep == Cls({":", "-", "|"} \cup WhiteSpace)
    IN  Alt(<<Cat(<<Bol, Plus(sep)>>), Cat(<<Plus(sep), Eol>>)>>)

\* UniversalInvoiceParser._clean_fabric_name
parser_clean_fabric_name(name) ==
    LET Cleaned(cleaned) ==
            IF /\ Len(cleaned) >= 3
               /\ ~FullMatch(Plus(Cls({"RUPEE", ".", ",", "/", "-"}
                                      \cup Digits \cup WhiteSpace)), cleaned)
            THEN cleaned
            ELSE <<>>
        Spaced(spaced) ==
            IF spaced = <<>> THEN <<>>                            \* nothing is left
            ELSE Cleaned(Sub(ReEdgeSeparators, <<>>, spaced))
        Noiseless(noiseless) ==
            IF noiseless = <<>> THEN <<>>                         \* nothing is left
            ELSE Spaced(StripWs(Sub(Plus(ReSpace), <<" ">>, noiseless)))
    IN  IF name = <<>> THEN <<>>
        ELSE Noiseless(SubAll(FabricNoisePatterns, 1, Len(FabricNoisePatterns), <<>>, name))

-----------------------------------------------------------------------------
(* UniversalInvoiceParser.  An InvoiceLine is a record of material_name,   *)
(* quantity, amount and rate, the three numbers as exact decimals; its     *)
(* field name_line is not in the code: it records the number of the text   *)
(* line the name was taken from.  A parser returns [status, items], where  *)
(* status is "returned" or "raised" (an exception left the parser).        *)

\* an InvoiceLine built with the rate and the amount in each other's place
InvoiceLineRateForAmount(name, qty, amount, rate_val, line_no) ==
    [material_name |-> name, quantity |-> qty, amount |-> rate_val, rate |-> amount,
     name_line |-> line_no]

\* InvoiceLine(material_name=..., quantity=..., amount=..., rate=...)
InvoiceLine(name, qty, amount, rate_val, line_no) ==
    [material_name |-> name, quantity |-> qty, amount |-> amount, rate |-> rate_val,
     name_line |-> line_no]

\* the indicators of format_patterns (lines 701-717), in the order of the dict
format_patterns ==
    <<[name |-> "sarom",
       indicators |-> <<<<"S","A","R","O","M">>,
                        <<"T","H","A","K","O","R"," ","I","N","D"," ","E","S","T","A","T","E">>,
                        <<"V","I","D","H","Y","A","V","I","H","A","R">>>>],
      [name |-> "sujan_impex",
       indicators |-> <<<<"S","u","j","a","n"," ","I","m","p","e","x">>,
                        <<"S","U","J","A","N"," ","I","M","P","E","X">>,
                        <<"F","a","b","r","i","c","s"," ","&"," ","M","o","r","e">>>>],
      [name |-> "home_ideas",
       indicators |-> <<<<"H","o","m","e"," ","I","d","e","a","s">>,
                        <<"H","O","M","E"," ","I","D","E","A","S">>,
                        <<"D","D","E","C","O","R">>>>]>>

RECURSIVE DetectFrom(_, _)
\* the loop of detect_format over the formats from the k-th on
DetectFrom(text_lower, k) ==
    IF k > Len(format_patterns) THEN "generic"
    ELSE IF \E j \in 1..Len(format_patterns[k].indicators) :
                Contains(text_lower, Lower(format_patterns[k].indicators[j]))
         THEN format_patterns[k].name
    ELSE DetectFrom(text_lower, k + 1)

\* detect_format without text.lower(): the indicators are looked for as they
\* are written in the text
detect_format_case_sensitive(text) == DetectFrom(text, 1)

\* UniversalInvoiceParser.detect_format
detect_format(text) == DetectFrom(Lower(text), 1)

ReMtr == LitI(<<"M","t","r">>)

ReMeter == LitI(<<"M","e","t","e","r">>)

ReMtrOrMeter == Alt(<<ReMtr, ReMeter>>)

ReSpaces == Star(ReSpace)

\* the shape most patterns of _parse_sarom_format share:
\* (number)\s*unit1\s*(number)\s*unit2\s*(amount)
SaromShape(unit1, unit2) ==
    Cat(<<Grp(1, ReNumber), ReSpaces, unit1, ReSpaces, Grp(2, ReNumber), ReSpaces, unit2,
          ReSpaces, Grp(3, ReAmount)>>)

SaromMtrMtr == SaromShape(ReMtr, ReMtr)

SaromQuote == SaromShape(LitI(<<"M","t","r","\"">>), ReMtr)

SaromEither == SaromShape(ReMtrOrMeter, ReMtrOrMeter)

SaromFlexible ==
    Cat(<<Grp(1, ReNumber), ReSpaces, ReMtr, Star(NotCls(Digits)), ReSpaces,
          Grp(2, ReNumber), ReSpaces, ReMtr, ReSpaces, Grp(3, ReAmount)>>)

\* the patterns of _parse_sarom_format (lines 751-773), in the order of the list
SaromPatterns ==
    <<SaromShape(Alt(<<LitI(<<"M","y">>), ReMtr, ReMeter, LitI(<<"M","t","r",",">>),
                       LitI(<<"M","t","r","~">>), LitI(<<"M","t","r","\"">>)>>),
                 Alt(<<LitI(<<"M","u">>), ReMtr, ReMeter>>)),
      SaromEither,
      Cat(<<Grp(1, ReNumber), ReMtrOrMeter, Cls({",", "~", "-"}), ReSpaces,
            Grp(2, ReNumber), ReSpaces, ReMtrOrMeter, ReSpaces, Grp(3, ReAmount)>>),
      Cat(<<Grp(1, ReNumber), ReSpaces, LitI(<<"M","t","r","~">>), ReSpaces, Opt(Cls({","})),
            ReSpaces, Grp(2, ReNumber), ReSpaces, ReMtr, ReSpaces, Grp(3, ReAmount)>>),
      SaromShape(LitI(<<"M","t","r",",">>), ReMtr),
      SaromQuote,
      SaromMtrMtr,
      SaromEither,
      SaromQuote,
      SaromShape(LitI(<<"M","t","r","-">>), LitI(<<"M","u">>)),
      SaromMtrMtr,
      SaromMtrMtr,
      SaromQuote,
      SaromMtrMtr,
      SaromQuote,
      SaromFlexible,
      SaromFlexible>>

\* the places of the list that repeat a pattern standing earlier in it: when
\* the loop reaches one of them, the same search has already been made on the
\* line and has not ended the loop
RepeatedSaromPatterns ==
    {k \in 1..Len(SaromPatterns) : \E j \in 1..(k - 1) : SaromPatterns[j] = SaromPatterns[k]}

\* what the pattern at the place k makes of the line (lines 783-797): an item
\* and the end of the loop, a ValueError of float(), or nothing, the loop
\* going on to the next pattern (no match, or a name the cleaner refuses)
SaromTry(line, k, line_no) ==
    LET Named(clean_name, qty, rate_val, amount) ==
            IF clean_name # <<>> /\ Len(clean_name) >= 3
            THEN [kind |-> "item",
                  item |-> <<InvoiceLine(clean_name, qty.val, amount.val, rate_val.val,
                                         line_no)>>]
            ELSE [kind |-> "next", item |-> <<>>]
        Fields(name_part, qty, rate_val, amount) ==
            IF ~qty.ok \/ ~rate_val.ok \/ ~amount.ok
            THEN [kind |-> "raised", item |-> <<>>]              \* ValueError
            ELSE IF name_part # <<>>
            THEN Named(clean_sarom_fabric_name(name_part), qty, rate_val, amount)
            ELSE [kind |-> "next", item |-> <<>>]
        Matched(m) ==
            IF ~m.ok THEN [kind |-> "next", item |-> <<>>]
            ELSE Fields(StripWs(SubSeq(line, 1, m.start - 1)),
                        ParseFloat(Group(line, m, 1)),
                        ParseFloat(Group(line, m, 2)),
                        ParseFloat(RemoveCommas(Group(line, m, 3))))
    IN  IF k \in RepeatedSaromPatterns THEN [kind |-> "next", item |-> <<>>]
        ELSE Matched(Search(SaromPatterns[k], line))

RECURSIVE SaromPatternLoop(_, _, _, _)
\* for pattern in patterns[lo..hi]: what the first pattern that ends the loop
\* makes of the line (one of the first half of them, else of the second)
SaromPatternLoop(line, line_no, lo, hi) ==
    IF lo > hi THEN [kind |-> "next", item |-> <<>>]
    ELSE IF lo = hi THEN SaromTry(line, lo, line_no)
    ELSE LET mid == (lo + hi) \div 2
             first == SaromPatternLoop(line, line_no, lo, mid)
         IN  IF first.kind # "next" THEN first
             ELSE SaromPatternLoop(line, line_no, mid + 1, hi)

\* the body of the loop of _parse_sarom_format for one line (lines 777-797)
SaromLine(acc, raw, line_no) ==
    LET Made(made) ==
            IF made.kind = "raised" THEN [acc EXCEPT !.status = "raised"]
            ELSE IF made.kind = "item" THEN [acc EXCEPT !.items = Append(@, made.item[1])]
            ELSE acc
        Stripped(line) ==
            IF line = <<>> \/ Len(line) < 10 THEN acc
            ELSE Made(SaromPatternLoop(line, line_no, 1, Len(SaromPatterns)))
    IN  Stripped(StripWs(raw))

RECURSIVE SaromLoop(_, _, _)
SaromLoop(lines, i, acc) ==
    IF i > Len(lines) \/ acc.status = "raised" THEN acc
    ELSE SaromLoop(lines, i + 1, SaromLine(acc, lines[i], i))

NoItems == [status |-> "returned", items |-> <<>>]

\* UniversalInvoiceParser._parse_sarom_format
parse_sarom_format(text) == SaromLoop(SplitLines(text), 1, NoItems)

\* (?:MTR|Mtr|Meter|Meters|Mtrs) under re.IGNORECASE
ReSujanUnit ==
    Alt(<<LitI(<<"M","T","R">>), LitI(<<"M","t","r">>), LitI(<<"M","e","t","e","r">>),
          LitI(<<"M","e","t","e","r","s">>), LitI(<<"M","t","r","s">>)>>)

\* [\d,]+(?:\.\d{2})?
ReSujanMoney ==
    Cat(<<Plus(Cls(Digits \cup {","})), Opt(Cat(<<Cls({"."}), Times(ReDigit, 2)>>))>>)

\* ITEM_LINE_RE (lines 845-855); the groups desc, hsn, qty, rate and amount
\* are the groups 1 to 5
ITEM_LINE_RE ==
    Cat(<<Bol,
          Grp(1, LazyPlus(NotCls({"\n"}))),
          Plus(ReSpace), Grp(2, Times(ReDigit, 8)), Plus(ReSpace),
          Grp(3, ReNumber), ReSpaces, ReSujanUnit, Plus(ReSpace),
          Grp(4, ReSujanMoney), ReSpaces, ReSujanUnit, Plus(ReSpace),
          Grp(5, ReSujanMoney),
          ReSpaces, Eol>>)

\* the number of the line of text that holds the position i
LineOf(text, i) == 1 + Cardinality({k \in 1..(i - 1) : text[k] = "\n"})

\* the body of the loop of _parse_sujan_impex_format for one match (lines 858-877)
SujanMatch(acc, text, m) ==
    LET Named(clean_name, qty, rate_val, amount) ==
            IF clean_name # <<>> /\ Len(clean_name) >= 3
            THEN [acc EXCEPT !.items = Append(@, InvoiceLine(clean_name, qty.val, amount.val,
                                                             rate_val.val,
                                                             LineOf(text, m.start)))]
            ELSE acc
        Fields(desc_raw, qty, rate_val, amount) ==
            IF ~qty.ok \/ ~rate_val.ok \/ ~amount.ok
            THEN [acc EXCEPT !.status = "raised"]                \* ValueError
            ELSE Named(parser_clean_fabric_name(desc_raw), qty, rate_val, amount)
    IN  Fields(StripWs(Sub(Plus(ReSpace), <<" ">>, Group(text, m, 1))),
               ParseFloat(Group(text, m, 3)),
               ParseFloat(RemoveCommas(Group(text, m, 4))),
               ParseFloat(RemoveCommas(Group(text, m, 5))))

RECURSIVE SujanLoop(_, _, _)
\* for match in ITEM_LINE_RE.finditer(text), looking from the position i on
SujanLoop(text, i, acc) ==
    LET Found(m) ==
            IF acc.status = "raised" \/ ~m.ok THEN acc
            ELSE SujanLoop(text, IF m.end > m.start THEN m.end ELSE m.end + 1,
                           SujanMatch(acc, text, m))
    IN  Found(SearchFrom(ITEM_LINE_RE, text, i, TRUE))

\* UniversalInvoiceParser._parse_sujan_impex_format
parse_sujan_impex_format(text) == SujanLoop(text, 1, NoItems)

\* starts_line_item: ^\d{10}\s
starts_line_item == Cat(<<Bol, Times(ReDigit, 10), ReSpace>>)

\* the body of the loop of _parse_home_ideas_format for one line (lines 893-943)
HomeIdeasLine(acc, raw, line_no) ==
    LET Named(clean_name, qty, rate_val, amount) ==
            IF clean_name # <<>> /\ Len(clean_name) >= 3
            THEN [acc EXCEPT !.items = Append(@, InvoiceLine(clean_name, qty.val, amount.val,
                                                             rate_val.val, line_no))]
            ELSE acc
        Fields(collection, qty, rate_val, amount) ==
            IF ~qty.ok \/ ~rate_val.ok \/ ~amount.ok THEN acc    \* except ValueError
            ELSE IF Gt(qty.val, Num(0)) /\ Gt(rate_val.val, Num(0)) /\ Gt(amount.val, Num(0))
            THEN Named(parser_clean_fabric_name(collection), qty, rate_val, amount)
            ELSE acc
        Tokens(tokens, n) ==
            IF n < 11 THEN acc
            ELSE Fields(JoinWith(<<" ">>, SubSeq(tokens, 2, n - 8)),
                        ParseFloat(tokens[n - 3]),
                        ParseFloat(RemoveCommas(tokens[n - 2])),
                        ParseFloat(RemoveCommas(tokens[n - 1])))
        Stripped(line) ==
            IF line = <<>> THEN acc
            ELSE IF ~MatchAt(starts_line_item, line, 1, FALSE).ok THEN acc
            ELSE Tokens(SplitWs(line), Len(SplitWs(line)))
    IN  Stripped(StripWs(raw))

RECURSIVE HomeIdeasLoop(_, _, _)
HomeIdeasLoop(lines, i, acc) ==
    IF i > Len(lines) THEN acc
    ELSE HomeIdeasLoop(lines, i + 1, HomeIdeasLine(acc, lines[i], i))

\* UniversalInvoiceParser._parse_home_ideas_format; the texts of the model
\* break their lines with "\n" only, where splitlines() is split('\n')
\* without a last empty line
parse_home_ideas_format(text) == HomeIdeasLoop(SplitLines(text), 1, NoItems)

\* (\d+(?:\.\d+)?)\s*(?:per|/)\s*(?:mtr|meter|pcs) under re.I
ReRatePer ==
    Cat(<<Grp(1, ReNumber), ReSpaces, Alt(<<LitI(<<"p","e","r">>), Cls({"/"})>>), ReSpaces,
          Alt(<<LitI(<<"m","t","r">>), LitI(<<"m","e","t","e","r">>),
                LitI(<<"p","c","s">>)>>)>>)

\* ₹?\s*([\d,]+(?:\.\d+)?)
ReRupeeAmount == Cat(<<Opt(Cls({"RUPEE"})), ReSpaces, Grp(1, ReAmount)>>)

\* `not x` for an Optional[float]: None (<<>>) or 0.0
Falsy(x) == x = <<>> \/ Same(x[1], Num(0))

\* the body of the loop of _find_rate_amount_in_context for one line
\* (lines 980-998); found is <<rate, amount>>, each <<>> (None) or <<value>>
ContextLine(found, raw) ==
    LET Found(old, match, number) ==
            IF Falsy(old) /\ match.ok /\ number.ok THEN <<number.val>> ELSE old
        Rate(line, rate_match) ==
            Found(found[1], rate_match, ParseFloat(Group(line, rate_match, 1)))
        Amount(line, amt_match) ==
            Found(found[2], amt_match, ParseFloat(RemoveCommas(Group(line, amt_match, 1))))
        Stripped(line) ==
            <<Rate(line, Search(ReRatePer, line)), Amount(line, Search(ReRupeeAmount, line))>>
    IN  Stripped(StripWs(raw))

RECURSIVE ContextLoop(_, _, _, _)
ContextLoop(lines, i, last, found) ==
    IF i > last THEN found
    ELSE ContextLoop(lines, i + 1, last, ContextLine(found, lines[i]))

\* UniversalInvoiceParser._find_rate_amount_in_context; current_line counts from 1
find_rate_amount_in_context(lines, current_line) ==
    ContextLoop(lines, Max2(1, current_line - 2),
                IF current_line + 2 <= Len(lines) THEN current_line + 2 ELSE Len(lines),
                <<<<>>, <<>>>>)

\* UniversalInvoiceParser._extract_fabric_from_line: <<name, qty, rate, amount>>,
\* each <<>> (None) or <<value>>
extract_fabric_from_line(line, lines, line_index) ==
    LET Name(name_match) ==
            IF name_match.ok THEN <<StripWs(Group(line, name_match, 1))>> ELSE <<>>
        Quantity(qty_match) ==
            IF qty_match.ok THEN <<ParseFloat(Group(line, qty_match, 1)).val>> ELSE <<>>
        Fabric(context) ==
            <<Name(MatchAt(Cat(<<Bol, Grp(1, Plus(Cls(Letters \cup WhiteSpace \cup {"-"})))>>),
                           line, 1, FALSE)),
              Quantity(Search(Grp(1, ReNumber), line)),
              context[1], context[2]>>
    IN  Fabric(find_rate_amount_in_context(lines, line_index))

\* the body of the loop of _parse_generic_format for one line (lines 956-968)
GenericLine(acc, lines, i) ==
    LET Named(fabric, clean_name) ==
            IF clean_name # <<>>
            THEN [acc EXCEPT !.items = Append(@, InvoiceLine(clean_name, fabric[2][1],
                                                             fabric[4][1], fabric[3][1], i))]
            ELSE acc
        Extracted(fabric) ==
            IF /\ fabric[1] # <<>> /\ fabric[1][1] # <<>>
               /\ ~Falsy(fabric[2]) /\ ~Falsy(fabric[3]) /\ ~Falsy(fabric[4])
            THEN Named(fabric, parser_clean_fabric_name(fabric[1][1]))
            ELSE acc
        Stripped(line) ==
            IF line = <<>> \/ Len(line) < 10 THEN acc
            ELSE IF ~(Search(ReLetter, line).ok /\ Search(Plus(ReDigit), line).ok) THEN acc
            ELSE Extracted(extract_fabric_from_line(line, lines, i))
    IN  Stripped(StripWs(lines[i]))

RECURSIVE GenericLoop(_, _, _)
GenericLoop(lines, i, acc) ==
    IF i > Len(lines) THEN acc
    ELSE GenericLoop(lines, i + 1, GenericLine(acc, lines, i))

\* UniversalInvoiceParser._parse_generic_format
parse_generic_format(text) == GenericLoop(SplitLines(text), 1, NoItems)

\* the extractor parse_invoice calls for a format (lines 736-743)
Dispatch(detected, text) ==
    IF detected = "sarom" THEN parse_sarom_format(text)
    ELSE IF detected = "sujan_impex" THEN parse_sujan_impex_format(text)
    ELSE IF detected = "home_ideas" THEN parse_home_ideas_format(text)
    ELSE parse_generic_format(text)

\* UniversalInvoiceParser.parse_invoice
parse_invoice(text) == Dispatch(detect_format(text), text)

-----------------------------------------------------------------------------
(* Bounds and inputs                                                       *)

\* longest string given to normalize_string in NormSpec
MaxLen == 4

\* longest catalog in MatchSpec
MaxCatalog == 2

\* largest invoice rate in PriceSpec
MaxRate == 13000

\* one character of each class the patterns of normalize_string tell apart
NormAlphabet == {"A", "a", "1", "5", "-", " ", "%", "_"}

StringsUpTo(n) == UNION {[1..k -> NormAlphabet] : k \in 0..n}

NameRoyalFabric == <<"A"," ","-"," ","N","E","W"," ","R","O","Y","A","L"," ","F","A","B","R","I","C">>

NameNewRoyal == <<"N","E","W"," ","R","O","Y","A","L">>

NameNewRoyalLower == <<"n","e","w"," ","r","o","y","a","l">>

NameRedCotton == <<"r","e","d"," ","c","o","t","t","o","n">>

NameBlueCotton == <<"b","l","u","e"," ","c","o","t","t","o","n">>

NameRedSilk == <<"r","e","d"," ","s","i","l","k">>

NameCotton == <<"c","o","t","t","o","n">>

NameAHyphen == <<"a"," ","-">>

NameTwelve == <<"1","2">>

NameEmpty == <<>>

NameNewRoyl == <<"n","e","w"," ","r","o","y","l">>

NameASpace == <<"a"," ">>

NameFabricRoyalNewRed == <<"f","a","b","r","i","c"," ","r","o","y","a","l"," ","n","e","w"," ","r","e","d">>

NameNewRoyalRed == <<"N","E","W"," ","R","O","Y","A","L"," ","R","E","D">>

NameRoyalRedChecks ==
    <<"A"," ","-"," ","N","E","W"," ","R","O","Y","A","L"," ","R","E","D"," ",
      "J","A","C","Q","U","A","R","D"," ","C","H","E","C","K","S">>

NameDashes == <<"-","-","-">>

ParsedNames == {NameRoyalFabric, NameNewRoyal, NameNewRoyalLower, NameRedCotton,
                NameBlueCotton, NameRedSilk, NameCotton, NameAHyphen,
                NameTwelve, NameEmpty, NameNewRoyl, NameASpace,
                NameFabricRoyalNewRed}

CatalogEntries ==
    {DatabaseFabric(NameRoyalFabric, 549), DatabaseFabric(NameNewRoyal, 549),
     DatabaseFabric(NameNewRoyalLower, 600), DatabaseFabric(NameRedCotton, 549),
     DatabaseFabric(NameBlueCotton, 600), DatabaseFabric(NameCotton, 549),
     DatabaseFabric(NameAHyphen, 549), DatabaseFabric(NameTwelve, 549)}

Catalogs == UNION {[1..k -> CatalogEntries] : k \in 0..MaxCatalog}

\* what the similarity libraries may return for one pair of different
\* strings whose longer one has `longest` characters: the six percentages
\* are v, the Levenshtein distance is `longest` (far) or 1
LibOutcome(v, far, longest) ==
    [seq_score |-> v, jaro_score |-> v,
     levenshtein_distance |-> IF far THEN longest ELSE 1,
     fuzz_ratio |-> v, fuzz_partial |-> v, fuzz_token_sort |-> v, fuzz_token_set |-> v]

\* nothing in common, alike, nearly equal
LibProfiles == {<<0, TRUE>>, <<70, FALSE>>, <<100, FALSE>>}

\* the library results for normalized_parsed against every key of the index
LibResults(index, parsed_name) ==
    {[key \in KeySet(index) |->
        LibOutcome(prof[key][1], prof[key][2],
                   Max2(Len(key), Len(normalize_string(parsed_name))))] :
     prof \in [KeySet(index) -> LibProfiles]}

\* match_fabric gets as far as fuzzy_match, the first strategy that calls
\* the libraries
FuzzyReached(index, parsed_name) ==
    /\ exact_match(index, parsed_name).kind = "none"
    /\ prefix_based_match(index, parsed_name).kind = "none"
    /\ substring_match(index, parsed_name).kind = "none"

\* the rows load_csv_fabrics makes of the catalog
CsvRows(fabrics) ==
    [i \in 1..Len(fabrics) |->
        CsvRow(fabrics[i].material_name, fabrics[i].default_purchase_price)]

\* the number of matching characters SequenceMatcher may find between the
\* cleaned parsed name and row i: all of the shorter string when one
\* contains the other, otherwise none or all of the shorter string
CsvLibResults(parsed_name, rows) ==
    LET a == clean_fabric_name(parsed_name)
        b(i) == clean_fabric_name(remove_csv_prefix(rows[i].original_name))
        shorter(i) == IF Len(a) <= Len(b(i)) THEN Len(a) ELSE Len(b(i))
        all == {i \in 1..Len(rows) : Contains(a, b(i)) \/ Contains(b(i), a)}
    IN  {[i \in 1..Len(rows) |-> IF i \in all \/ i \in some THEN shorter(i) ELSE 0] :
            some \in SUBSET ((1..Len(rows)) \ all)}

\* the fabrics the scripts look up: "NEW ROYAL", a longer name and no name
TestFabrics == {NameNewRoyal, NameNewRoyalRed, NameRedCotton, NameEmpty}

\* the thresholds the scripts call find_csv_fabric_match with
TestThresholds == {DefaultThreshold, Frac(3, 10)}

\* rows of the CSV file the scripts load
CsvEntries ==
    {DatabaseFabric(NameRoyalRedChecks, 549), DatabaseFabric(NameRoyalFabric, 549),
     DatabaseFabric(NameBlueCotton, 600), DatabaseFabric(NameDashes, 549)}

CsvCatalogs == UNION {[1..k -> CsvEntries] : k \in 0..MaxCatalog}

\* the invoice rates: None, and the amounts around every hundred
Rates == {<<>>} \cup {<<r>> : r \in {x \in 0..MaxRate : x % 100 \in {0, 1, 99}}}

Prices == {0, 100, 10000}

\* most lines after the header in a text of ParseSpec
MaxLines == 2

\* names the three vendors, sarom last and in small letters
HeaderSarom ==
    <<"d", "d", "e", "c", "o", "r", " ", "S", "u", "j", "a", "n", " ", "I", "m", "p", "e", "x", " ", "s", "a", "r", "o", "m">>

\* names home_ideas and then sujan_impex
HeaderSujan ==
    <<"D", "D", "E", "C", "O", "R", " ", "s", "u", "j", "a", "n", " ", "i", "m", "p", "e", "x">>

HeaderHomeIdeas ==
    <<"D", "D", "E", "C", "O", "R">>

LineCassia ==
    <<"C", "A", "S", "S", "I", "A", " ", "-", " ", "1", "0", "1", " ", "4", ".", "1",
      "5", " ", "M", "t", "r", " ", "7", "2", "0", ".", "0", "0", " ", "M", "t", "r",
      " ", "2", ",", "9", "8", "8", ".", "0", "0">>

LineShortName ==
    <<"A", "B", " ", "4", ".", "1", "5", " ", "M", "t", "r", " ", "7", "2", "0", ".",
      "0", "0", " ", "M", "t", "r", " ", "2", ",", "9", "8", "8", ".", "0", "0">>

LineCommaAmount ==
    <<"C", "A", "S", "S", "I", "A", " ", "4", ".", "1", "5", " ", "M", "t", "r", " ",
      "7", "2", "0", ".", "0", "0", " ", "M", "t", "r", " ", ",">>

LineZeroQuantity ==
    <<"C", "A", "S", "S", "I", "A", " ", "0", " ", "M", "t", "r", " ", "7", "2", "0",
      ".", "0", "0", " ", "M", "t", "r", " ", "0">>

LineNameOnly ==
    <<"R", "O", "Y", "A", "L", " ", "F", "A", "B", "R", "I", "C">>

LineColumnsOnly ==
    <<"5", "5", "1", "6", "9", "2", "0", "0", " ", "4", ".", "1", "5", " ", "M", "t",
      "r", " ", "7", "2", "0", ".", "0", "0", " ", "M", "t", "r", " ", "2", ",", "9",
      "8", "8", ".", "0", "0">>

LineHsn ==
    <<"(", "R", "O", "Y", "A", "L", ")", ".", " ", "5", "5", "1", "6", "9", "2", "0",
      "0", " ", "4", ".", "1", "5", " ", "M", "t", "r", " ", "7", "2", "0", ".", "0",
      "0", " ", "M", "t", "r", " ", "2", ",", "9", "8", "8", ".", "0", "0">>

LineOrder ==
    <<"1", "2", "3", "4", "5", "6", "7", "8", "9", "0", " ", "N", "E", "W", " ", "R",
      "O", "Y", "A", "L", " ", "1", " ", "R", "L", " ", "5", "5", " ", "L", "R", " ",
      "3", ".", "9", " ", "5", "4", "9", ".", "0", "0", " ", "2", ",", "1", "4", "1",
      ".", "1", "0", " ", "2", ",", "1", "4", "1", ".", "1", "0">>

LinePerMtr ==
    <<"R", "O", "Y", "A", "L", " ", "F", "A", "B", "R", "I", "C", " ", "4", " ", "p",
      "c", "s", " ", "7", "2", "0", " ", "p", "e", "r", " ", "m", "t", "r">>

\* the first line of a text: none, or one that names a vendor
Headers == {<<>>, HeaderSarom, HeaderSujan, HeaderHomeIdeas}

ItemLines == {LineCassia, LineShortName, LineCommaAmount, LineZeroQuantity, LineNameOnly,
              LineColumnsOnly, LineHsn, LineOrder, LinePerMtr}

\* the texts: a header line, when there is one, and up to MaxLines lines
Texts ==
    {JoinWith(<<"\n">>, (IF header = <<>> THEN <<>> ELSE <<header>>) \o body) :
        header \in Headers, body \in UNION {[1..k -> ItemLines] : k \in 0..MaxLines}}

-----------------------------------------------------------------------------
(* Specifications                                                          *)

\* no call of match_fabric yet
NoResult ==
    [status |-> "idle", parsed_name |-> <<>>, database_fabric |-> <<>>,
     match_score |-> Num(0), match_algorithm |-> "NONE", confidence_level |-> "NONE",
     suggested_price |-> <<>>]

\* no call of find_csv_fabric_match yet
NoCsvResult == [status |-> "idle", parsed_name |-> <<>>, match |-> <<>>]

NormIdle == s_in = <<>> /\ s_once = <<>> /\ s_twice = <<>> /\ npc = "idle"

MatchIdle ==
    /\ database_fabrics = <<>> /\ db_index = <<>> /\ csv_fabrics = <<>>
    /\ result = NoResult /\ lib_results = <<>> /\ csv_result = NoCsvResult

\* no line analysed yet
NoVerdict == [price_analysis |-> <<>>, status |-> "NONE"]

\* no MatchResult made yet
NoPrices == [suggested_price |-> <<>>, price_difference |-> <<>>,
             price_difference_percent |-> <<>>]

PriceIdle ==
    /\ rate = <<>> /\ price = 0 /\ ppc = "idle"
    /\ verdict_api = NoVerdict /\ verdict_app = NoVerdict /\ verdict_matcher = NoPrices

\* parse_invoice not called yet
NoParse == [status |-> "idle", items |-> <<>>]

ParseIdle ==
    invoice_text = <<>> /\ format_type = "none" /\ parsed = NoParse /\ parse_pc = "idle"

\* the API server is not running
ApiIdle ==
    /\ users_db = <<>> /\ rate_limit_store = <<>> /\ uploads = <<>> /\ now = 0
    /\ requests = <<>> /\ accepted = <<>>

(* normalize_string applied once and then to its own result *)

NormInit ==
    /\ s_in \in StringsUpTo(MaxLen)
    /\ s_once = <<>> /\ s_twice = <<>> /\ npc = "in"
    /\ MatchIdle /\ PriceIdle /\ ParseIdle /\ ApiIdle

NormalizeOnce ==
    /\ npc = "in"
    /\ s_once' = normalize_string(s_in)
    /\ npc' = "once"
    /\ UNCHANGED <<s_in, s_twice, matchVars, priceVars, parseVars,
                   apiVars>>

NormalizeTwice ==
    /\ npc = "once"
    /\ s_twice' = normalize_string(s_once)
    /\ npc' = "twice"
    /\ UNCHANGED <<s_in, s_once, matchVars, priceVars, parseVars,
                   apiVars>>

NormNext == NormalizeOnce \/ NormalizeTwice

NormSpec == NormInit /\ [][NormNext]_vars

(* a FabricMatcher built from a catalog, and the CSV rows of the same catalog *)

Init ==
    /\ database_fabrics \in Catalogs
    /\ db_index = build_index(database_fabrics)
    /\ csv_fabrics = CsvRows(database_fabrics)
    /\ result = NoResult /\ lib_results = <<>> /\ csv_result = NoCsvResult
    /\ NormIdle /\ PriceIdle /\ ParseIdle /\ ApiIdle

\* a matcher that drops the entry it proposed from its index
MatchFabricConsuming ==
    /\ result = NoResult /\ csv_result = NoCsvResult
    /\ \E parsed_name \in ParsedNames :
        IF FuzzyReached(db_index, parsed_name)
        THEN \E lib \in LibResults(db_index, parsed_name) :
                /\ result' = match_fabric(db_index, parsed_name, lib)
                /\ lib_results' = lib
        ELSE /\ result' = match_fabric(db_index, parsed_name, <<>>)
             /\ lib_results' = <<>>
    /\ db_index' = SelectSeq(db_index, LAMBDA entry : <<entry.fabric>> # result'.database_fabric)
    /\ UNCHANGED <<database_fabrics, csv_fabrics, csv_result,
                   normVars, priceVars, parseVars,
                   apiVars>>

\* one call of match_fabric by a caller that holds no earlier outcome
MatchFabric ==
    /\ result = NoResult /\ csv_result = NoCsvResult
    /\ \E parsed_name \in ParsedNames :
        IF FuzzyReached(db_index, parsed_name)
        THEN \E lib \in LibResults(db_index, parsed_name) :
                /\ result' = match_fabric(db_index, parsed_name, lib)
                /\ lib_results' = lib
        ELSE /\ result' = match_fabric(db_index, parsed_name, <<>>)
             /\ lib_results' = <<>>
    /\ UNCHANGED <<database_fabrics, db_index, csv_fabrics, csv_result,
                   normVars, priceVars, parseVars,
                   apiVars>>

\* one call of find_csv_fabric_match by a caller that holds no earlier outcome
FindCsvFabricMatch ==
    /\ result = NoResult /\ csv_result = NoCsvResult
    /\ \E parsed_name \in ParsedNames :
        \E lib \in CsvLibResults(parsed_name, csv_fabrics) :
            csv_result' = find_csv_fabric_match(parsed_name, csv_fabrics, lib, DefaultThreshold)
    /\ UNCHANGED <<database_fabrics, db_index, csv_fabrics, result, lib_results,
                   normVars, priceVars, parseVars,
                   apiVars>>

\* the caller is done with the outcome and goes on to its next invoice line
NextLine ==
    /\ result # NoResult \/ csv_result # NoCsvResult
    /\ result' = NoResult /\ lib_results' = <<>> /\ csv_result' = NoCsvResult
    /\ UNCHANGED <<database_fabrics, db_index, csv_fabrics, normVars, priceVars,
                   parseVars,
                   apiVars>>

Next == MatchFabric \/ FindCsvFabricMatch \/ NextLine

Spec == Init /\ [][Next]_vars

(* the scripts test_royal_matching.py and debug_csv_matching.py: the CSV  *)
(* file is loaded and one fabric is looked up in it                       *)

CsvInit ==
    /\ database_fabrics \in CsvCatalogs
    /\ db_index = <<>>
    /\ csv_fabrics = CsvRows(database_fabrics)
    /\ result = NoResult /\ lib_results = <<>> /\ csv_result = NoCsvResult
    /\ NormIdle /\ PriceIdle /\ ParseIdle /\ ApiIdle

\* match = find_csv_fabric_match(test_fabric, csv_fabrics), with the default
\* threshold (test_royal_matching.py) or with threshold=0.3 (debug_matching)
TestRoyalMatching ==
    /\ csv_result = NoCsvResult
    /\ \E test_fabric \in TestFabrics : \E threshold \in TestThresholds :
        \E lib \in CsvLibResults(test_fabric, csv_fabrics) :
            csv_result' = find_csv_fabric_match(test_fabric, csv_fabrics, lib, threshold)
    /\ UNCHANGED <<database_fabrics, db_index, csv_fabrics, result, lib_results,
                   normVars, priceVars, parseVars,
                   apiVars>>

CsvNext == TestRoyalMatching

CsvSpec == CsvInit /\ [][CsvNext]_vars

(* the price analysis of one matched line, by api.py and by app.py *)

PriceInit ==
    /\ rate \in Rates
    /\ price \in Prices
    /\ ppc = "in" /\ verdict_api = NoVerdict /\ verdict_app = NoVerdict
    /\ verdict_matcher = NoPrices
    /\ NormIdle /\ MatchIdle /\ ParseIdle /\ ApiIdle

AnalyzePrice ==
    /\ ppc = "in"
    /\ verdict_api' = price_analysis_api(rate, price)
    /\ verdict_app' = price_analysis_app(rate, price)
    /\ verdict_matcher' = match_result_prices(rate, price)
    /\ ppc' = "done"
    /\ UNCHANGED <<rate, price, normVars, matchVars, parseVars,
                   apiVars>>

PriceNext == AnalyzePrice

PriceSpec == PriceInit /\ [][PriceNext]_vars

(* parse_invoice on one OCR text *)

ParseInit ==
    /\ invoice_text \in Texts
    /\ format_type = "none" /\ parsed = NoParse /\ parse_pc = "in"
    /\ NormIdle /\ MatchIdle /\ PriceIdle /\ ApiIdle

ParseInvoice ==
    /\ parse_pc = "in"
    /\ format_type' = detect_format(invoice_text)
    /\ parsed' = parse_invoice(invoice_text)
    /\ parse_pc' = "done"
    /\ UNCHANGED <<invoice_text, normVars, matchVars, priceVars,
                   apiVars>>

ParseNext == ParseInvoice

ParseSpec == ParseInit /\ [][ParseNext]_vars

(* texts of the tabular layout, among them a line that holds two rows of   *)
(* the table                                                               *)

LineTwoRows ==
    <<"1", " ", "M", "t", "r", " ", "2", " ", "M", "t", "r", " ", "3", " ", "R", "O",
      "Y", "A", "L", " ", "4", "M", "t", "r", "-", " ", "5", " ", "M", "t", "r", " ",
      "6">>

SaromLines == ItemLines \cup {LineTwoRows}

SaromTexts ==
    {JoinWith(<<"\n">>, <<HeaderSarom>> \o body) :
        body \in UNION {[1..k -> SaromLines] : k \in 0..MaxLines}}

SaromInit ==
    /\ invoice_text \in SaromTexts
    /\ format_type = "none" /\ parsed = NoParse /\ parse_pc = "in"
    /\ NormIdle /\ MatchIdle /\ PriceIdle /\ ApiIdle

SaromSpec == SaromInit /\ [][ParseNext]_vars

-----------------------------------------------------------------------------
(* The REST API of api.py and the upload form of app.py.  A request is     *)
(* handled by one thread of the Flask server; the threads share users_db,  *)
(* rate_limit_store, the upload folder and the clock.  An API key is a     *)
(* tuple <<username, "_api_key_", number>>, the header X-API-Key is <<>>   *)
(* (absent) or <<key>>, a time is a whole number of seconds.               *)

\* API_CONFIG['RATE_LIMIT']
REQUESTS_PER_MINUTE == 60

REQUESTS_PER_HOUR == 1000

REQUESTS_PER_DAY == 10000

\* API_CONFIG['UPLOAD_FOLDER'] followed by the separator of os.path.join
UPLOAD_FOLDER == <<"u","p","l","o","a","d","s","/">>

\* API_CONFIG['ALLOWED_EXTENSIONS']
ALLOWED_EXTENSIONS ==
    {<<"p","d","f">>, <<"p","n","g">>, <<"j","p","g">>, <<"j","p","e","g">>,
     <<"t","i","f","f">>, <<"t","i","f">>, <<"b","m","p">>, <<"w","e","b","p">>}

\* hashlib.sha256(password.encode()).hexdigest()
Sha256(password) == <<"sha256", password>>

\* users_db of api.py (lines 57-68), a dict in insertion order
InitialUsers ==
    <<[username |-> "admin", password_hash |-> Sha256("admin123"), role |-> "admin",
       api_key |-> <<"admin", "_api_key_", 12345>>],
      [username |-> "team1", password_hash |-> Sha256("team123"), role |-> "user",
       api_key |-> <<"team1", "_api_key_", 67890>>]>>

\* validate_api_key that takes a key of nobody for the key of the first user
validate_api_key_lenient(api_key, db) ==
    LET holders == {k \in 1..Len(db) : db[k].api_key = api_key}
    IN  IF holders = {} THEN <<[username |-> db[1].username, role |-> db[1].role]>>
        ELSE LET first == CHOOSE k \in holders : \A other \in holders : k <= other
             IN  <<[username |-> db[first].username, role |-> db[first].role]>>

\* validate_api_key: <<>> (None) or <<[username, role]>> of the first user with the key
validate_api_key(api_key, db) ==
    LET holders == {k \in 1..Len(db) : db[k].api_key = api_key}
    IN  IF holders = {} THEN <<>>
        ELSE LET first == CHOOSE k \in holders : \A other \in holders : k <= other
             IN  <<[username |-> db[first].username, role |-> db[first].role]>>

\* the position of the last "." of a file name, 0 when it has none
LastDot(filename) ==
    LET dots == {k \in 1..Len(filename) : filename[k] = "."}
    IN  IF dots = {} THEN 0 ELSE CHOOSE k \in dots : \A other \in dots : other <= k

\* allowed_file: '.' in filename and filename.rsplit('.', 1)[1].lower() in ALLOWED_EXTENSIONS
allowed_file(filename) ==
    /\ LastDot(filename) > 0
    /\ Lower(SubSeq(filename, LastDot(filename) + 1, Len(filename))) \in ALLOWED_EXTENSIONS

\* werkzeug's secure_filename on ASCII names: whitespace and path separators
\* become "_", the characters outside [A-Za-z0-9_.-] are dropped and the
\* "." and "_" at both ends are stripped
secure_filename(filename) ==
    LET joined == [k \in 1..Len(filename) |->
                      IF filename[k] \in WhiteSpace \cup {"/"} THEN "_" ELSE filename[k]]
        kept == SelectSeq(joined, LAMBDA c : c \in Letters \cup Digits \cup {"_", ".", "-"})
        inner == {k \in 1..Len(kept) : kept[k] \notin {".", "_"}}
    IN  IF inner = {} THEN <<>>
        ELSE SubSeq(kept, CHOOSE k \in inner : \A other \in inner : k <= other,
                    CHOOSE k \in inner : \A other \in inner : other <= k)

\* the two digits of a number below 100
TwoDigits(n) == <<DigitSeq[(n \div 10) + 1], DigitSeq[(n % 10) + 1]>>

\* datetime.now().strftime('%Y%m%d_%H%M%S') for a clock that reads 0 at the
\* midnight that starts 1 January 2025
StrfTime(t) ==
    <<"2","0","2","5","0","1">> \o TwoDigits(1 + (t \div 86400)) \o <<"_">>
        \o TwoDigits((t \div 3600) % 24) \o TwoDigits((t \div 60) % 60) \o TwoDigits(t % 60)

\* the path api.py saves an upload to (lines 344-347 and 409-412)
ApiFilePath(filename, t) ==
    UPLOAD_FOLDER \o StrfTime(t) \o <<"_">> \o secure_filename(filename)

\* the path app.py saves an upload to (lines 220-222); hex is uuid.uuid4().hex
AppFilePath(filename, hex) == UPLOAD_FOLDER \o hex \o <<"_">> \o secure_filename(filename)

\* latest time of the clock in ApiSpec and RaceSpec
MaxClock == 1

\* the text of an invoice with one line item
TextOneItem == HeaderSarom \o <<"\n">> \o LineCassia

\* an invoice, a scan without text, a file of a type that is not allowed
\* and a file part without a name
FileInvoice == [filename |-> <<"i","n","v",".","p","d","f">>, text |-> TextOneItem]

FileScan == [filename |-> <<"m","y"," ","s","c","a","n",".","P","N","G">>, text |-> <<>>]

FileNotes == [filename |-> <<"n","o","t","e","s",".","t","x","t">>, text |-> <<>>]

FileUnnamed == [filename |-> <<>>, text |-> <<>>]

\* the files the clients of ApiSpec send
ApiFiles == {FileInvoice, FileScan, FileNotes, FileUnnamed}

\* parse_invoice reads nothing but its argument: what it returns for the texts
\* of ApiFiles and for the paths api.py saves them to, worked out once
ParsedInvoice ==
    [text \in {file.text : file \in ApiFiles}
              \cup {ApiFilePath(file.filename, time) : file \in ApiFiles, time \in 0..MaxClock} |->
        parse_invoice(text)]

\* dict[key] = value
Put(dict, key, value) ==
    [x \in DOMAIN dict \cup {key} |-> IF x = key THEN value ELSE dict[x]]

\* del dict[key]
Del(dict, key) == [x \in DOMAIN dict \ {key} |-> dict[x]]

\* dict.get(key, [])
Get(dict, key) == IF key \in DOMAIN dict THEN dict[key] ELSE <<>>

\* A list of times is written by its runs of equal times, in the order of
\* the list: <<[t |-> 5, n |-> 2], [t |-> 7, n |-> 1]>> is [5, 5, 7].

\* timestamps.append(time)
AppendTime(timestamps, time) ==
    IF timestamps # <<>> /\ timestamps[Len(timestamps)].t = time
    THEN [timestamps EXCEPT ![Len(timestamps)].n = @ + 1]
    ELSE Append(timestamps, [t |-> time, n |-> 1])

RECURSIVE LenFrom(_, _, _)
LenFrom(timestamps, i, j) ==
    IF i > j THEN 0
    ELSE IF i = j THEN timestamps[i].n
    ELSE LenFrom(timestamps, i, (i + j) \div 2) + LenFrom(timestamps, ((i + j) \div 2) + 1, j)

\* len(timestamps)
LenTimes(timestamps) == LenFrom(timestamps, 1, Len(timestamps))

\* [t for t in timestamps if current_time - t < window]
Within(timestamps, current_time, window) ==
    SelectSeq(timestamps, LAMBDA x : current_time - x.t < window)

\* len([t for t in timestamps if current_time - t < window])
Recent(timestamps, current_time, window) ==
    LenTimes(Within(timestamps, current_time, window))

\* the times at which a request of user_key was accepted (its function
\* ran), a list that is never cleaned.  Not in the code.
Accept(log, user_key, time) == Put(log, user_key, AppendTime(Get(log, user_key), time))

\* the dict of an analysis that did not succeed: {'error': ...}
Failed(error) == [success |-> FALSE, error |-> error, summary |-> <<>>]

\* what analyze_invoice_api returns for a path: the file is read by
\* extract_text, then the path itself is given to parse_invoice (line 157)
\* and the list it returns is asked for its invoice_lines (line 170); none
\* of the lines 171-306 is reached
analyze_invoice_api(file_path, folder) ==
    LET Parsed(invoice_data) ==
            IF invoice_data.status = "raised"
            THEN Failed("Analysis failed")
            ELSE IF invoice_data.items = <<>>                    \* if not invoice_data
            THEN Failed("Could not parse invoice format")
            ELSE Failed("Analysis failed")                       \* AttributeError
    IN  IF file_path \notin DOMAIN folder
        THEN Failed("Analysis failed")                           \* extract_text raises
        ELSE Parsed(ParsedInvoice[file_path])

\* a thread that handles no request
NoRequest ==
    [pc |-> "idle", endpoint |-> "none", api_key |-> <<>>, files |-> <<>>, data |-> <<>>,
     user |-> <<>>, current_time |-> 0, kept |-> <<>>, k |-> 1, file_path |-> <<>>,
     results |-> <<>>, errors |-> <<>>, status |-> 0, body |-> "none"]

\* the decorators of an endpoint, outermost first, then its function
Stages(endpoint) ==
    IF endpoint \in {"analyze", "batch_analyze"} THEN <<"require_auth", "rate_limit", "handler">>
    ELSE IF endpoint \in {"list_users", "create_user"}
    THEN <<"require_auth", "require_admin", "handler">>
    ELSE IF endpoint \in {"get_status", "get_rate_limits"} THEN <<"require_auth", "handler">>
    ELSE <<"handler">>                                           \* upload_file of app.py

\* the stage that follows a stage of the endpoint
StageAfter(endpoint, stage) ==
    LET k == CHOOSE j \in 1..Len(Stages(endpoint)) : Stages(endpoint)[j] = stage
    IN  Stages(endpoint)[k + 1]

\* f.__name__ of the function an endpoint is routed to
FunctionName(endpoint) ==
    IF endpoint = "analyze" THEN "analyze_invoice_endpoint" ELSE "batch_analyze_endpoint"

\* user_key of rate_limit (line 92)
UserKey(r) == <<r.user[1].username, FunctionName(r.endpoint)>>

\* the thread answers its request; what it worked with is dropped
Reply(r, status, body) ==
    [NoRequest EXCEPT !.pc = "done", !.endpoint = r.endpoint, !.api_key = r.api_key,
                      !.files = r.files, !.results = r.results, !.errors = r.errors,
                      !.status = status, !.body = body]

\* a request arrives and is given to an idle thread
Receive(t, req) ==
    /\ requests[t].pc = "idle"
    /\ requests' = [requests EXCEPT ![t] =
                       [NoRequest EXCEPT !.pc = Stages(req.endpoint)[1],
                                         !.endpoint = req.endpoint,
                                         !.api_key = req.api_key,
                                         !.files = req.files,
                                         !.data = req.data]]
    /\ UNCHANGED <<users_db, rate_limit_store, uploads, now, accepted, restVars>>

\* require_auth.decorated_function (lines 123-132)
RequireAuth(t) ==
    LET r == requests[t]
        Known(user) ==
            IF user = <<>> THEN Reply(r, 401, "Invalid API key")
            ELSE [r EXCEPT !.user = user, !.pc = StageAfter(r.endpoint, "require_auth")]
    IN  /\ r.pc = "require_auth"
        /\ requests' = [requests EXCEPT ![t] =
                           IF r.api_key = <<>> \/ r.api_key[1] = <<>>    \* if not api_key
                           THEN Reply(r, 401, "API key required")
                           ELSE Known(validate_api_key(r.api_key[1], users_db))]
        /\ UNCHANGED <<users_db, rate_limit_store, uploads, now, accepted, restVars>>

\* require_admin.decorated_function (lines 139-141)
RequireAdmin(t) ==
    LET r == requests[t]
    IN  /\ r.pc = "require_admin"
        /\ requests' = [requests EXCEPT ![t] =
                           IF r.user = <<>> \/ r.user[1].role # "admin"
                           THEN Reply(r, 403, "Admin access required")
                           ELSE [r EXCEPT !.pc = StageAfter(r.endpoint, "require_admin")]]
        /\ UNCHANGED <<users_db, rate_limit_store, uploads, now, accepted, restVars>>

\* rate_limit.decorated_function, lines 82-95: the key is checked again, the
\* clock is read and the user's list is created if it is missing
RateLimitEnter(t) ==
    LET r == requests[t]
        user == IF r.api_key = <<>> THEN <<>> ELSE validate_api_key(r.api_key[1], users_db)
        user_key == <<user[1].username, FunctionName(r.endpoint)>>
    IN  /\ r.pc = "rate_limit"
        /\ IF r.api_key = <<>> \/ r.api_key[1] = <<>>
           THEN /\ requests' = [requests EXCEPT ![t] = Reply(r, 401, "API key required")]
                /\ UNCHANGED rate_limit_store
           ELSE IF user = <<>>
           THEN /\ requests' = [requests EXCEPT ![t] = Reply(r, 401, "Invalid API key")]
                /\ UNCHANGED rate_limit_store
           ELSE /\ requests' = [requests EXCEPT ![t] =
                                   [r EXCEPT !.current_time = now, !.pc = "rate_filter"]]
                /\ rate_limit_store' =
                       IF user_key \in DOMAIN rate_limit_store THEN rate_limit_store
                       ELSE Put(rate_limit_store, user_key, <<>>)
        /\ UNCHANGED <<users_db, uploads, now, accepted, restVars>>

\* lines 98-101, the list comprehension: the entries of the last hour
RateLimitFilter(t) ==
    LET r == requests[t]
    IN  /\ r.pc = "rate_filter"
        /\ requests' = [requests EXCEPT ![t] =
               [r EXCEPT !.kept = Within(rate_limit_store[UserKey(r)], r.current_time, 3600),
                         !.pc = "rate_store"]]
        /\ UNCHANGED <<users_db, rate_limit_store, uploads, now, accepted, restVars>>

\* line 98, the assignment of the new list to rate_limit_store[user_key]
RateLimitStore(t) ==
    LET r == requests[t]
    IN  /\ r.pc = "rate_store"
        /\ rate_limit_store' = Put(rate_limit_store, UserKey(r), r.kept)
        /\ requests' = [requests EXCEPT ![t] = [r EXCEPT !.kept = <<>>, !.pc = "rate_check"]]
        /\ UNCHANGED <<users_db, uploads, now, accepted, restVars>>

\* lines 104-111: the three counts and their comparison with the limits
RateLimitCheck(t) ==
    LET r == requests[t]
        timestamps == rate_limit_store[UserKey(r)]
    IN  /\ r.pc = "rate_check"
        /\ requests' = [requests EXCEPT ![t] =
               IF \/ Recent(timestamps, r.current_time, 60) >= REQUESTS_PER_MINUTE
                  \/ Recent(timestamps, r.current_time, 3600) >= REQUESTS_PER_HOUR
                  \/ Recent(timestamps, r.current_time, 86400) >= REQUESTS_PER_DAY
               THEN Reply(r, 429, "Rate limit exceeded")
               ELSE [r EXCEPT !.pc = "rate_record"]]
        /\ UNCHANGED <<users_db, rate_limit_store, uploads, now, accepted, restVars>>

\* line 114: rate_limit_store[user_key].append(current_time); the request
\* is accepted and its function runs (line 116)
RateLimitRecord(t) ==
    LET r == requests[t]
    IN  /\ r.pc = "rate_record"
        /\ rate_limit_store' =
               Put(rate_limit_store, UserKey(r),
                   AppendTime(rate_limit_store[UserKey(r)], r.current_time))
        /\ accepted' = Accept(accepted, UserKey(r), r.current_time)
        /\ requests' = [requests EXCEPT ![t] = [r EXCEPT !.pc = "handler"]]
        /\ UNCHANGED <<users_db, uploads, now, restVars>>

\* the next step of a thread once the upload of its file k is cleaned up
Cleaned(r) ==
    IF r.endpoint = "analyze" THEN Reply(r, r.status, r.body)
    ELSE [r EXCEPT !.k = @ + 1, !.pc = "batch_file"]

\* analyze_invoice_endpoint, lines 333-349: the checks of the request and
\* file.save(file_path)
AnalyzeSave(t) ==
    LET r == requests[t]
        file == r.files[1]
        file_path == ApiFilePath(file.filename, now)
    IN  /\ r.pc = "handler" /\ r.endpoint = "analyze"
        /\ IF r.files = <<>>
           THEN /\ requests' = [requests EXCEPT ![t] = Reply(r, 400, "No file provided")]
                /\ UNCHANGED uploads
           ELSE IF file.filename = <<>>
           THEN /\ requests' = [requests EXCEPT ![t] = Reply(r, 400, "No file selected")]
                /\ UNCHANGED uploads
           ELSE IF ~allowed_file(file.filename)
           THEN /\ requests' = [requests EXCEPT ![t] = Reply(r, 400, "File type not allowed")]
                /\ UNCHANGED uploads
           ELSE /\ uploads' = Put(uploads, file_path, [owner |-> <<t, 1>>, text |-> file.text])
                /\ requests' = [requests EXCEPT ![t] =
                                   [r EXCEPT !.file_path = file_path, !.pc = "analyze"]]
        /\ UNCHANGED <<users_db, rate_limit_store, now, accepted, restVars>>

\* lines 353-362: the analysis and the status of the answer
AnalyzeRun(t) ==
    LET r == requests[t]
        Answer(analysis) ==
            [r EXCEPT !.results = <<analysis>>,
                      !.status = IF analysis.success THEN 200 ELSE 400,
                      !.body = IF analysis.success THEN "success" ELSE analysis.error,
                      !.pc = "cleanup"]
    IN  /\ r.pc = "analyze"
        /\ requests' = [requests EXCEPT ![t] = Answer(analyze_invoice_api(r.file_path, uploads))]
        /\ UNCHANGED <<users_db, rate_limit_store, uploads, now, accepted, restVars>>

\* lines 366 and 424: if os.path.exists(file_path)
CleanupExists(t) ==
    LET r == requests[t]
    IN  /\ r.pc = "cleanup"
        /\ requests' = [requests EXCEPT ![t] =
                           IF r.file_path \in DOMAIN uploads THEN [r EXCEPT !.pc = "remove"]
                           ELSE Cleaned(r)]
        /\ UNCHANGED <<users_db, rate_limit_store, uploads, now, accepted, restVars>>

\* lines 367 and 425: os.remove(file_path), a FileNotFoundError when the
\* file is gone; analyze_invoice_endpoint answers it at lines 369-373,
\* batch_analyze_endpoint lists it at lines 427-431
CleanupRemove(t) ==
    LET r == requests[t]
    IN  /\ r.pc = "remove"
        /\ IF r.file_path \in DOMAIN uploads
           THEN /\ uploads' = Del(uploads, r.file_path)
                /\ requests' = [requests EXCEPT ![t] = Cleaned(r)]
           ELSE /\ UNCHANGED uploads
                /\ requests' = [requests EXCEPT ![t] =
                       IF r.endpoint = "analyze" THEN Reply(r, 500, "Processing failed")
                       ELSE [r EXCEPT !.errors = Append(@, r.files[r.k].filename),
                                      !.k = @ + 1, !.pc = "batch_file"]]
        /\ UNCHANGED <<users_db, rate_limit_store, now, accepted, restVars>>

\* batch_analyze_endpoint, lines 382-394: the checks of the request
BatchEnter(t) ==
    LET r == requests[t]
    IN  /\ r.pc = "handler" /\ r.endpoint = "batch_analyze"
        /\ requests' = [requests EXCEPT ![t] =
               IF r.files = <<>> THEN Reply(r, 400, "No files provided")
               ELSE IF Len(r.files) > 10
               THEN Reply(r, 400, "Maximum 10 files allowed per batch")
               ELSE [r EXCEPT !.k = 1, !.pc = "batch_file"]]
        /\ UNCHANGED <<users_db, rate_limit_store, uploads, now, accepted, restVars>>

\* lines 396-414 for the file k of the batch, and lines 433-442 after the
\* last file
BatchFile(t) ==
    LET r == requests[t]
        file == r.files[r.k]
        file_path == ApiFilePath(file.filename, now)
    IN  /\ r.pc = "batch_file"
        /\ IF r.k > Len(r.files)
           THEN /\ requests' = [requests EXCEPT ![t] = Reply(r, 200, "success")]
                /\ UNCHANGED uploads
           ELSE IF file.filename = <<>>
           THEN /\ requests' = [requests EXCEPT ![t] = [r EXCEPT !.k = @ + 1]]
                /\ UNCHANGED uploads
           ELSE IF ~allowed_file(file.filename)
           THEN /\ requests' = [requests EXCEPT ![t] =
                                   [r EXCEPT !.errors = Append(@, file.filename), !.k = @ + 1]]
                /\ UNCHANGED uploads
           ELSE /\ uploads' = Put(uploads, file_path, [owner |-> <<t, r.k>>, text |-> file.text])
                /\ requests' = [requests EXCEPT ![t] =
                                   [r EXCEPT !.file_path = file_path, !.pc = "batch_run"]]
        /\ UNCHANGED <<users_db, rate_limit_store, now, accepted, restVars>>

\* lines 418-420: the analysis of the file k of the batch
BatchRun(t) ==
    LET r == requests[t]
    IN  /\ r.pc = "batch_run"
        /\ requests' = [requests EXCEPT ![t] =
               [r EXCEPT !.results = Append(@, analyze_invoice_api(r.file_path, uploads)),
                         !.pc = "cleanup"]]
        /\ UNCHANGED <<users_db, rate_limit_store, uploads, now, accepted, restVars>>

\* get_status (lines 452-461)
GetStatus(t) ==
    LET r == requests[t]
    IN  /\ r.pc = "handler" /\ r.endpoint = "get_status"
        /\ requests' = [requests EXCEPT ![t] = Reply(r, 200, "status")]
        /\ UNCHANGED <<users_db, rate_limit_store, uploads, now, accepted, restVars>>

\* list_users (lines 466-479)
ListUsers(t) ==
    LET r == requests[t]
    IN  /\ r.pc = "handler" /\ r.endpoint = "list_users"
        /\ requests' = [requests EXCEPT ![t] =
               Reply([r EXCEPT !.results = [k \in 1..Len(users_db) |-> users_db[k].username]],
                     200, "users")]
        /\ UNCHANGED <<users_db, rate_limit_store, uploads, now, accepted, restVars>>

\* create_user (lines 486-516); data is <<>> when the request has no JSON
\* with a username and a password
CreateUser(t) ==
    LET r == requests[t]
        data == r.data[1]
        api_key == <<data.username, "_api_key_", now>>
    IN  /\ r.pc = "handler" /\ r.endpoint = "create_user"
        /\ IF r.data = <<>>
           THEN /\ requests' = [requests EXCEPT ![t] =
                                   Reply(r, 400, "Username and password required")]
                /\ UNCHANGED users_db
           ELSE IF \E k \in 1..Len(users_db) : users_db[k].username = data.username
           THEN /\ requests' = [requests EXCEPT ![t] = Reply(r, 409, "Username already exists")]
                /\ UNCHANGED users_db
           ELSE /\ users_db' = Append(users_db,
                                      [username |-> data.username,
                                       password_hash |-> Sha256(data.password),
                                       role |-> data.role, api_key |-> api_key])
                /\ requests' = [requests EXCEPT ![t] =
                                   Reply([r EXCEPT !.results = <<api_key>>], 201, "success")]
        /\ UNCHANGED <<rate_limit_store, uploads, now, accepted, restVars>>

\* get_rate_limits (lines 525-553): the usage of analyze_invoice_endpoint
GetRateLimits(t) ==
    LET r == requests[t]
        user == validate_api_key(r.api_key[1], users_db)
        user_key == <<user[1].username, "analyze_invoice_endpoint">>
        timestamps == Get(rate_limit_store, user_key)
    IN  /\ r.pc = "handler" /\ r.endpoint = "get_rate_limits"
        /\ requests' = [requests EXCEPT ![t] =
               Reply([r EXCEPT !.results = <<[last_minute |-> Recent(timestamps, now, 60),
                                              last_hour |-> Recent(timestamps, now, 3600),
                                              last_day |-> Recent(timestamps, now, 86400)]>>],
                     200, "usage")]
        /\ UNCHANGED <<users_db, rate_limit_store, uploads, now, accepted, restVars>>

\* what SequenceMatcher may find for each of the items (see CsvLibResults)
AppLibResults(items, rows) ==
    {libs \in [1..Len(items) ->
                  UNION {CsvLibResults(items[i].material_name, rows) : i \in 1..Len(items)}] :
        \A i \in 1..Len(items) : libs[i] \in CsvLibResults(items[i].material_name, rows)}

\* what analyze_invoice of app.py may return for a path (lines 41-203): the
\* text of the file is parsed and every item is looked up in the CSV rows;
\* libs[i] is what SequenceMatcher finds for item i, so there is one outcome
\* for each choice of libs.  The tax summary is left out.
analyze_invoice(file_path, folder, rows) ==
    LET Matched(invoice_items, matches) ==
            IF \E i \in 1..Len(matches) : matches[i].status = "raised"
            THEN Failed("Error analyzing invoice")               \* except Exception
            ELSE [success |-> TRUE, error |-> "",
                  summary |-> <<[total_items |-> Len(invoice_items),
                                 matched_items |->
                                     Cardinality({i \in 1..Len(matches) :
                                                     matches[i].match # <<>>})]>>]
        Parsed(invoice_items) ==
            IF invoice_items.status = "raised"
            THEN {Failed("Error analyzing invoice")}
            ELSE IF invoice_items.items = <<>>
            THEN {Failed("No valid fabric items found in the invoice.")}
            ELSE {Matched(invoice_items.items,
                          [i \in 1..Len(invoice_items.items) |->
                              find_csv_fabric_match(invoice_items.items[i].material_name,
                                                    rows, libs[i], DefaultThreshold)]) :
                     libs \in AppLibResults(invoice_items.items, rows)}
    IN  IF file_path \notin DOMAIN folder
        THEN {Failed("Error analyzing invoice")}                 \* extract_text raises
        ELSE IF folder[file_path].text = <<>>
        THEN {Failed("No text could be extracted from the file.")}
        ELSE Parsed(ParsedInvoice[folder[file_path].text])

\* uuid.uuid4().hex of the request of thread t: no two requests get the same
Uuid4Hex(t) == <<"c", "0", "f", "f", "e", "e", DigitSeq[t + 1]>>

\* upload_file of app.py, lines 211-225; an answer without a status is a 200
UploadSave(t) ==
    LET r == requests[t]
        file == r.files[1]
        file_path == AppFilePath(file.filename, Uuid4Hex(t))
    IN  /\ r.pc = "handler" /\ r.endpoint = "upload"
        /\ IF r.files = <<>>
           THEN /\ requests' = [requests EXCEPT ![t] = Reply(r, 200, "No file part")]
                /\ UNCHANGED uploads
           ELSE IF file.filename = <<>>
           THEN /\ requests' = [requests EXCEPT ![t] = Reply(r, 200, "No file selected")]
                /\ UNCHANGED uploads
           ELSE IF ~allowed_file(file.filename)
           THEN /\ requests' = [requests EXCEPT ![t] = Reply(r, 200, "Invalid file type")]
                /\ UNCHANGED uploads
           ELSE /\ uploads' = Put(uploads, file_path, [owner |-> <<t, 1>>, text |-> file.text])
                /\ requests' = [requests EXCEPT ![t] =
                                   [r EXCEPT !.file_path = file_path, !.pc = "upload_run"]]
        /\ UNCHANGED <<users_db, rate_limit_store, now, accepted, restVars>>

\* line 228: result = analyze_invoice(file_path)
UploadRun(t) ==
    LET r == requests[t]
        Answer(analysis) ==
            [r EXCEPT !.results = <<analysis>>,
                      !.status = 200,
                      !.body = IF analysis.success THEN "success" ELSE analysis.error,
                      !.pc = "upload_remove"]
    IN  /\ r.pc = "upload_run"
        /\ \E analysis \in analyze_invoice(r.file_path, uploads, csv_fabrics) :
               requests' = [requests EXCEPT ![t] = Answer(analysis)]
        /\ UNCHANGED <<users_db, rate_limit_store, uploads, now, accepted, restVars>>

\* lines 231-236: os.remove(file_path), its errors ignored, and the answer
UploadRemove(t) ==
    LET r == requests[t]
    IN  /\ r.pc = "upload_remove"
        /\ uploads' = IF r.file_path \in DOMAIN uploads THEN Del(uploads, r.file_path)
                      ELSE uploads
        /\ requests' = [requests EXCEPT ![t] = Reply(r, r.status, r.body)]
        /\ UNCHANGED <<users_db, rate_limit_store, now, accepted, restVars>>

\* one step of the thread t
Handle(t) ==
    \/ RequireAuth(t) \/ RequireAdmin(t)
    \/ RateLimitEnter(t) \/ RateLimitFilter(t) \/ RateLimitStore(t) \/ RateLimitCheck(t)
    \/ RateLimitRecord(t)
    \/ AnalyzeSave(t) \/ AnalyzeRun(t) \/ CleanupExists(t) \/ CleanupRemove(t)
    \/ BatchEnter(t) \/ BatchFile(t) \/ BatchRun(t)
    \/ GetStatus(t) \/ ListUsers(t) \/ CreateUser(t) \/ GetRateLimits(t)
    \/ UploadSave(t) \/ UploadRun(t) \/ UploadRemove(t)

(* Requests *)

\* number of requests in ApiSpec and RaceSpec, one thread each
MaxRequests == 2

\* the clock goes on by a second; the requests are short against a second:
\* one that is being handled is answered within the second it arrived in
Tick ==
    /\ now < MaxClock
    /\ \A t \in DOMAIN requests : requests[t].pc \in {"idle", "done"}
    /\ now' = now + 1
    /\ UNCHANGED <<users_db, rate_limit_store, uploads, requests, accepted, restVars>>

AdminKey == <<"admin", "_api_key_", 12345>>

Team1Key == <<"team1", "_api_key_", 67890>>

\* a key of no user
UnknownKey == <<"guest", "_api_key_", 0>>

Request(endpoint, api_key, files, data) ==
    [endpoint |-> endpoint, api_key |-> api_key, files |-> files, data |-> data]

\* the JSON bodies of POST /api/v1/users
UserData ==
    {<<>>,
     <<[username |-> "team2", password |-> "team234", role |-> "user"]>>,
     <<[username |-> "team1", password |-> "team234", role |-> "admin"]>>}

\* the endpoints behind require_auth
AuthenticatedEndpoints ==
    {"analyze", "batch_analyze", "get_status", "list_users", "create_user", "get_rate_limits"}

\* what a client sends to an endpoint when it does not care about the answer
Payload(endpoint) ==
    IF endpoint = "analyze" THEN Request(endpoint, <<>>, <<FileInvoice>>, <<>>)
    ELSE IF endpoint = "batch_analyze" THEN Request(endpoint, <<>>, <<FileInvoice, FileScan>>, <<>>)
    ELSE IF endpoint = "create_user"
    THEN Request(endpoint, <<>>, <<>>,
                 <<[username |-> "team2", password |-> "team234", role |-> "user"]>>)
    ELSE Request(endpoint, <<>>, <<>>, <<>>)

\* the requests of ApiSpec: every endpoint without a key of a user, the
\* endpoints of a user and of the administrator, and the upload form
ApiRequests ==
    {[Payload(e) EXCEPT !.api_key = h] :
        e \in AuthenticatedEndpoints, h \in {<<>>, <<<<>>>>, <<UnknownKey>>}}
    \cup {Request(e, <<Team1Key>>, f, <<>>) :
            e \in {"analyze", "upload"},
            f \in {<<>>, <<FileInvoice>>, <<FileScan>>, <<FileNotes>>, <<FileUnnamed>>}}
    \cup {Request("batch_analyze", <<Team1Key>>, f, <<>>) :
            f \in {<<>>, <<FileInvoice, FileInvoice>>, <<FileNotes, FileUnnamed, FileScan>>}}
    \cup {Request(e, <<Team1Key>>, <<>>, <<>>) :
            e \in {"get_status", "list_users", "get_rate_limits"}}
    \cup {Request("list_users", <<AdminKey>>, <<>>, <<>>)}
    \cup {Request("create_user", <<AdminKey>>, <<>>, d) : d \in UserData}

\* the CSV file the upload form reads
ApiCatalog == <<DatabaseFabric(NameRoyalFabric, 549)>>

\* the server is started: nobody has sent a request
ApiInit ==
    /\ users_db = InitialUsers
    /\ rate_limit_store = <<>>
    /\ uploads = <<>>
    /\ now = 0
    /\ requests = [t \in 1..MaxRequests |-> NoRequest]
    /\ accepted = <<>>
    /\ database_fabrics = <<>> /\ db_index = <<>> /\ csv_fabrics = CsvRows(ApiCatalog)
    /\ result = NoResult /\ lib_results = <<>> /\ csv_result = NoCsvResult
    /\ NormIdle /\ PriceIdle /\ ParseIdle

ApiNext ==
    \/ \E t \in DOMAIN requests : \E req \in ApiRequests : Receive(t, req)
    \/ \E t \in DOMAIN requests : Handle(t)
    \/ Tick

ApiSpec == ApiInit /\ [][ApiNext]_vars

(* Requests one after the other *)

\* rate_limit.decorated_function (lines 90-116) for a request that no other
\* request interleaves with: the store it leaves and whether its function ran
rate_limit(store, user_key, current_time) ==
    LET timestamps == Within(Get(store, user_key), current_time, 3600)
    IN  IF \/ Recent(timestamps, current_time, 60) >= REQUESTS_PER_MINUTE
           \/ Recent(timestamps, current_time, 3600) >= REQUESTS_PER_HOUR
           \/ Recent(timestamps, current_time, 86400) >= REQUESTS_PER_DAY
        THEN [store |-> Put(store, user_key, timestamps), allowed |-> FALSE]
        ELSE [store |-> Put(store, user_key, AppendTime(timestamps, current_time)),
              allowed |-> TRUE]

\* POST /api/v1/analyze of team1 without a file part: its function answers
\* 400 'No file provided' when rate_limit lets it run
FileLess == Request("analyze", <<Team1Key>>, <<>>, <<>>)

\* the server after one more FileLess at the time `time`
ServeOne(s, time) ==
    LET user_key == <<"team1", FunctionName("analyze")>>
        out == rate_limit(s.store, user_key, time)
    IN  [store |-> out.store,
         accepted |-> IF out.allowed THEN Accept(s.accepted, user_key, time) ELSE s.accepted,
         status |-> IF out.allowed THEN 400 ELSE 429]

\* the server after n more of them, each answered before the next arrives;
\* requests that changed nothing are followed by requests that change nothing
RECURSIVE ServeAll(_, _, _)
ServeAll(s, time, n) ==
    LET first == ServeAll(s, time, n \div 2)
    IN  IF n = 0 THEN s
        ELSE IF n = 1 THEN ServeOne(s, time)
        ELSE IF first = s THEN s
        ELSE ServeAll(first, time, n - (n \div 2))

\* a client sends n FileLess requests within the second `now`, one after
\* the other; the thread t keeps the answer to the last of them
Serve(t, n) ==
    LET served == ServeAll([store |-> rate_limit_store, accepted |-> accepted, status |-> 0],
                           now, n)
        r == [NoRequest EXCEPT !.endpoint = FileLess.endpoint, !.api_key = FileLess.api_key]
    IN  /\ \A other \in DOMAIN requests : requests[other].pc = "idle"
        /\ rate_limit_store' = served.store
        /\ accepted' = served.accepted
        /\ requests' = [requests EXCEPT ![t] =
                           IF served.status = 429 THEN Reply(r, 429, "Rate limit exceeded")
                           ELSE Reply(r, 400, "No file provided")]
        /\ UNCHANGED <<users_db, uploads, now, restVars>>

\* the requests are answered and nothing arrives for d seconds
Wait(d) ==
    /\ \A t \in DOMAIN requests : requests[t].pc \in {"idle", "done"}
    /\ \E t \in DOMAIN requests : requests[t].pc = "done"
    /\ now' = now + d
    /\ requests' = [t \in DOMAIN requests |-> NoRequest]
    /\ UNCHANGED <<users_db, rate_limit_store, uploads, accepted, restVars>>

\* the time RateSpec runs to
MaxSeconds == 36000

\* a client that sends REQUESTS_PER_MINUTE requests every minute
RateNext ==
    \/ Serve(1, REQUESTS_PER_MINUTE)
    \/ now < MaxSeconds /\ Wait(60)

RateSpec == ApiInit /\ [][RateNext]_vars

\* the steps of a thread on the way through rate_limit into
\* analyze_invoice_endpoint
HandleRateLimited(t) ==
    \/ RequireAuth(t)
    \/ RateLimitEnter(t) \/ RateLimitFilter(t) \/ RateLimitStore(t) \/ RateLimitCheck(t)
    \/ RateLimitRecord(t)
    \/ AnalyzeSave(t)

\* the requests a client has sent before two of its requests meet
Earlier == REQUESTS_PER_MINUTE - 1

\* a client sends Earlier requests, then requests that are handled at the
\* same time
RaceNext ==
    \/ accepted = <<>> /\ Serve(1, Earlier)
    \/ now < MaxClock /\ Wait(1)
    \/ \E t \in DOMAIN requests : Receive(t, FileLess)
    \/ \E t \in DOMAIN requests : HandleRateLimited(t)

RaceSpec == ApiInit /\ [][RaceNext]_vars

-----------------------------------------------------------------------------
(* Properties                                                              *)

\* the outcome of trying one strategy is what match_fabric reported
Reports(algorithm, strategy_result) ==
    /\ result.match_algorithm = algorithm
    /\ result.database_fabric = strategy_result.fabric
    /\ result.match_score = strategy_result.score

\* C1: match_fabric reports the first strategy, in the order EXACT, PREFIX,
\* SUBSTRING, FUZZY, SEMANTIC, whose best candidate meets its threshold, with
\* that candidate and score, and never a later one; whenever the normalized
\* parsed name is a key of the index the algorithm is EXACT_MATCH.
C1_StrategyOrder ==
    result.status = "returned" =>
        LET p == result.parsed_name
        IN  /\ normalize_string(p) \in KeySet(db_index)
                => result.match_algorithm = "EXACT_MATCH"
            /\ IF exact_match(db_index, p).kind = "some"
               THEN Reports("EXACT_MATCH", exact_match(db_index, p))
               ELSE IF prefix_based_match(db_index, p).kind = "some"
               THEN Reports("PREFIX_BASED_MATCH", prefix_based_match(db_index, p))
               ELSE IF substring_match(db_index, p).kind = "some"
               THEN Reports("SUBSTRING_MATCH", substring_match(db_index, p))
               ELSE IF fuzzy_match(db_index, p, lib_results).kind = "some"
               THEN Reports("FUZZY_MATCH", fuzzy_match(db_index, p, lib_results))
               ELSE IF semantic_match(db_index, p).kind = "some"
               THEN Reports("SEMANTIC_MATCH", semantic_match(db_index, p))
               ELSE result.match_algorithm = "NO_MATCH"

\* C1 witness: EXACT_MATCH is reported for a name that the substring
\* strategy would accept as well
C1_Witness ==
    /\ result.status = "returned"
    /\ result.match_algorithm = "EXACT_MATCH"
    /\ substring_match(db_index, result.parsed_name).kind = "some"

\* C2: for every entry e of the catalog, match_fabric called with
\* normalize_string(e.material_name) returns EXACT_MATCH with score 100.
C2_ExactSelfMatch ==
    (/\ result.status # "idle"
     /\ \E i \in 1..Len(database_fabrics) :
            result.parsed_name = normalize_string(database_fabrics[i].material_name))
    => /\ result.status = "returned"
       /\ result.match_algorithm = "EXACT_MATCH"
       /\ Same(result.match_score, Num(100))

\* C3: normalize_string is idempotent: normalizing its own result changes nothing.
C3_NormalizeIdempotent == npc = "twice" => s_twice = s_once

\* the status the claim gives to a percentage
ClaimedStatus(pct) ==
    IF pct.n = 0 THEN "EXACT MATCH"
    ELSE IF pct.n <= 2 * pct.d THEN "MINOR DIFFERENCE"
    ELSE IF pct.n <= 5 * pct.d THEN "SMALL DIFFERENCE"
    ELSE IF pct.n <= 10 * pct.d THEN "MODERATE DIFFERENCE"
    ELSE IF pct.n <= 25 * pct.d THEN "SIGNIFICANT DIFFERENCE"
    ELSE "MAJOR DIFFERENCE"

\* C4: for every invoice rate r and catalog price p > 0 the price status is
\* the bucket of pct = |r - p| / p * 100, every upper bound inclusive, both in
\* analyze_invoice_api and in analyze_invoice.
C4_PriceBuckets ==
    (ppc = "done" /\ rate # <<>> /\ price > 0) =>
        LET pct == Frac(Abs(rate[1] - price) * 100, price)
        IN  /\ verdict_api.status = ClaimedStatus(pct)
            /\ verdict_app.status = ClaimedStatus(pct)

\* C5: with an empty catalog match_fabric returns NO_MATCH, confidence
\* NO_MATCH, score 0 and no entry, find_csv_fabric_match returns no match,
\* and neither raises.
C5_EmptyCatalog ==
    database_fabrics = <<>> =>
        /\ result.status # "idle" =>
               /\ result.status = "returned"
               /\ result.match_algorithm = "NO_MATCH"
               /\ result.confidence_level = "NO_MATCH"
               /\ Same(result.match_score, Num(0))
               /\ result.database_fabric = <<>>
        /\ csv_result.status # "idle" =>
               /\ csv_result.status = "returned"
               /\ csv_result.match = <<>>

\* C5 witness: match_fabric has returned for a name that is not empty, on the
\* empty catalog
C5_Witness ==
    /\ database_fabrics = <<>>
    /\ result.status = "returned"
    /\ result.parsed_name = NameNewRoyal

\* C6: with the single entry ('A - NEW ROYAL FABRIC', 549) the parsed name
\* 'NEW ROYAL' is matched by PREFIX or SUBSTRING, with a confidence, to the
\* entry of price 549.
C6_NewRoyalScenario ==
    (/\ database_fabrics = <<DatabaseFabric(NameRoyalFabric, 549)>>
     /\ result.status # "idle"
     /\ result.parsed_name = NameNewRoyal)
    => /\ result.status = "returned"
       /\ result.match_algorithm \in {"PREFIX_BASED_MATCH", "SUBSTRING_MATCH"}
       /\ result.confidence_level \in {"HIGH", "MEDIUM", "LOW"}
       /\ result.database_fabric # <<>>
       /\ result.database_fabric[1].default_purchase_price = 549

\* C6 witness: the scenario has run and was decided by the substring strategy
C6_Witness ==
    /\ database_fabrics = <<DatabaseFabric(NameRoyalFabric, 549)>>
    /\ result.parsed_name = NameNewRoyal
    /\ result.match_algorithm = "SUBSTRING_MATCH"
    /\ Same(result.match_score, Num(89))

\* C7: every result of match_fabric has a score between 0 and 100.
C7_ScoreInRange ==
    result.status = "returned" =>
        Geq(result.match_score, Num(0)) /\ Geq(Num(100), result.match_score)

\* the confidence of a score: upper when the score reaches the bound
ConfidenceOf(score, bound, upper, lower) == IF Geq(score, Num(bound)) THEN upper ELSE lower

\* C8: EXACT has score 100 and HIGH; PREFIX, SUBSTRING and FUZZY have scores
\* of at least 70, 60 and 70, HIGH from 85 on and MEDIUM below; SEMANTIC has
\* a score of at least 50, MEDIUM from 70 on and LOW below; NO_MATCH, score
\* 0, confidence NO_MATCH and a null entry go together.
C8_ScoreAndConfidence ==
    result.status = "returned" =>
        LET a == result.match_algorithm
            s == result.match_score
            c == result.confidence_level
        IN  /\ a = "EXACT_MATCH" => Same(s, Num(100)) /\ c = "HIGH"
            /\ a = "PREFIX_BASED_MATCH"
                => Geq(s, Num(70)) /\ c = ConfidenceOf(s, 85, "HIGH", "MEDIUM")
            /\ a = "SUBSTRING_MATCH"
                => Geq(s, Num(60)) /\ c = ConfidenceOf(s, 85, "HIGH", "MEDIUM")
            /\ a = "FUZZY_MATCH"
                => Geq(s, Num(70)) /\ c = ConfidenceOf(s, 85, "HIGH", "MEDIUM")
            /\ a = "SEMANTIC_MATCH"
                => Geq(s, Num(50)) /\ c = ConfidenceOf(s, 70, "MEDIUM", "LOW")
            /\ (a = "NO_MATCH") <=> Same(s, Num(0))
            /\ Same(s, Num(0)) <=> (c = "NO_MATCH")
            /\ (c = "NO_MATCH") <=> (result.database_fabric = <<>>)

\* C8 witness: a prefix match whose score is exactly 85, the bound of HIGH
C8_Witness ==
    /\ result.status = "returned"
    /\ result.match_algorithm = "PREFIX_BASED_MATCH"
    /\ Same(result.match_score, Num(85))

\* C9: every catalog entry with a name that normalizes to a key is in the
\* built index, also when another entry has the same key and another price.
C9_DuplicatesKept ==
    \A i \in 1..Len(database_fabrics) :
        normalize_string(database_fabrics[i].material_name) # <<>>
            => \E j \in 1..Len(db_index) : db_index[j].fabric = database_fabrics[i]

\* the catalogs that hold the same entries in any order
Reorderings(fabrics) ==
    {[i \in 1..Len(fabrics) |-> fabrics[f[i]]] :
        f \in {g \in [1..Len(fabrics) -> 1..Len(fabrics)] :
                 \A i, j \in 1..Len(fabrics) : g[i] = g[j] => i = j}}

\* what match_fabric returns for the last parsed name, with the same library
\* results, when the matcher is built from the reordered catalog
Reordered(fabrics) == match_fabric(build_index(fabrics), result.parsed_name, lib_results)

PrefixScores(p) ==
    [i \in 1..Len(db_index) |->
        PrefixStep(Acc0, db_index[i].key, db_index[i].fabric, normalize_string(p),
                   SetOf(tokenize_string(p))).best_score]

SubstringScores(p) ==
    [i \in 1..Len(db_index) |->
        SubstringStep(Acc0, db_index[i].key, db_index[i].fabric, normalize_string(p),
                      SetOf(tokenize_string(p))).best_score]

FuzzyScores(p) ==
    [i \in 1..Len(db_index) |->
        FuzzyStep(Acc0, db_index[i].key, db_index[i].fabric, normalize_string(p),
                  lib_results[db_index[i].key]).best_score]

SemanticScores(p) ==
    [i \in 1..Len(db_index) |->
        SemanticStep(Acc0, db_index[i].key, db_index[i].fabric,
                     tokenize_string(p)).best_score]

\* the first position of the index whose score is the highest of all
FirstBest(scores) ==
    CHOOSE i \in 1..Len(scores) :
        /\ \A j \in 1..Len(scores) : Geq(scores[i], scores[j])
        /\ \A j \in 1..(i - 1) : ~Same(scores[j], scores[i])

\* a strategy that returns a candidate returns the first index entry that
\* reaches the highest score
ReturnsFirstBest(strategy_result, scores) ==
    strategy_result.kind = "some" =>
        /\ strategy_result.fabric = <<db_index[FirstBest(scores)].fabric>>
        /\ Same(strategy_result.score, scores[FirstBest(scores)])

\* the first position of the catalog whose name normalizes to the key
FirstInCatalog(key) ==
    CHOOSE i \in 1..Len(database_fabrics) :
        /\ normalize_string(database_fabrics[i].material_name) = key
        /\ \A j \in 1..(i - 1) : normalize_string(database_fabrics[j].material_name) # key

\* two index entries reach the same score, which is the highest and meets the threshold
TieAtBest(scores, threshold) ==
    \E i, j \in 1..Len(scores) :
        /\ i # j
        /\ Same(scores[i], scores[j])
        /\ Geq(scores[i], Num(threshold))
        /\ \A k \in 1..Len(scores) : Geq(scores[i], scores[k])

\* C11: in the prefix, substring, fuzzy and semantic strategies the entry
\* returned is the first one, in the iteration order of the index, that
\* reaches the best score (a later entry with an equal score does not replace
\* it), and the index is iterated in the order in which the catalog first
\* inserted its keys.
C11_FirstOfTiesWins ==
    result.status = "returned" =>
        LET p == result.parsed_name
        IN  /\ ReturnsFirstBest(prefix_based_match(db_index, p), PrefixScores(p))
            /\ ReturnsFirstBest(substring_match(db_index, p), SubstringScores(p))
            /\ lib_results # <<>>
                => ReturnsFirstBest(fuzzy_match(db_index, p, lib_results), FuzzyScores(p))
            /\ ReturnsFirstBest(semantic_match(db_index, p), SemanticScores(p))
            /\ \A i, j \in 1..Len(db_index) :
                   i < j => FirstInCatalog(db_index[i].key) < FirstInCatalog(db_index[j].key)

\* C11 witness: a fuzzy match was reported for a name that two index entries
\* match with the same, highest score, and the first of them was returned
C11_Witness ==
    /\ result.status = "returned"
    /\ result.match_algorithm = "FUZZY_MATCH"
    /\ TieAtBest(FuzzyScores(result.parsed_name), 70)
    /\ result.database_fabric = <<db_index[1].fabric>>

C13_TotalAtPriceZero ==
    (ppc = "done" /\ rate # <<>> /\ price = 0) =>
        /\ verdict_api.price_analysis # <<>>
        /\ verdict_api.price_analysis[1].difference = Abs(rate[1])
        /\ Same(verdict_api.price_analysis[1].difference_percentage, Num(0))
        /\ verdict_matcher.price_difference = <<Abs(rate[1])>>
        /\ verdict_matcher.price_difference_percent = <<Num(0)>>

\* C14: a line whose quantity, rate or amount text cannot be converted to a
\* number never makes parse_invoice raise: whatever the layout, parse_invoice
\* returns its list of items.
C14_NeverRaises ==
    parse_pc = "done" => parsed.status = "returned"

\* the indicator occurs in the text, the case of the letters left aside
OccursIn(indicator, text) ==
    \E i \in 1..Len(text) :
        /\ i + Len(indicator) - 1 <= Len(text)
        /\ \A k \in 1..Len(indicator) : LowerChar(text[i + k - 1]) = LowerChar(indicator[k])

\* one of the indicator strings of the vendor occurs in the text
VendorOccurs(vendor, text) ==
    \E f \in {format_patterns[k] : k \in 1..Len(format_patterns)} :
        /\ f.name = vendor
        /\ \E j \in 1..Len(f.indicators) : OccursIn(f.indicators[j], text)

\* C15: detect_format returns the first of sarom, sujan_impex, home_ideas
\* one of whose indicator strings occurs in the text, the case of the letters
\* left aside and wherever the indicators stand, and generic exactly when no
\* indicator occurs; parse_invoice returns what the extractor of that layout
\* makes of the text.
C15_FirstVendorWins ==
    parse_pc = "done" =>
        /\ format_type =
              IF VendorOccurs("sarom", invoice_text) THEN "sarom"
              ELSE IF VendorOccurs("sujan_impex", invoice_text) THEN "sujan_impex"
              ELSE IF VendorOccurs("home_ideas", invoice_text) THEN "home_ideas"
              ELSE "generic"
        /\ format_type = "generic" <=>
              \A vendor \in {"sarom", "sujan_impex", "home_ideas"} :
                  ~VendorOccurs(vendor, invoice_text)
        /\ format_type = "sarom" => parsed = parse_sarom_format(invoice_text)
        /\ format_type = "sujan_impex" => parsed = parse_sujan_impex_format(invoice_text)
        /\ format_type = "home_ideas" => parsed = parse_home_ideas_format(invoice_text)
        /\ format_type = "generic" => parsed = parse_generic_format(invoice_text)

\* C15 witness: an indicator of home_ideas stands before an indicator of
\* sarom in the text, sarom was detected and its extractor found an item
C15_Witness ==
    /\ parse_pc = "done"
    /\ VendorOccurs("home_ideas", invoice_text)
    /\ VendorOccurs("sarom", invoice_text)
    /\ ~VendorOccurs("sarom", SubSeq(invoice_text, 1, 6))
    /\ VendorOccurs("home_ideas", SubSeq(invoice_text, 1, 6))
    /\ format_type = "sarom"
    /\ parsed.status = "returned" /\ parsed.items # <<>>

\* the lines of the text, as text.split('\n') numbers them
LinesOf(text) == SplitOn(text, "\n")

\* the line holds a digit
HasDigit(line) == \E k \in 1..Len(line) : line[k] \in Digits

\* C16: no item of the result takes its name from a line of the text that
\* holds no digit, in any layout.
C16_NoItemFromDigitlessLine ==
    (parse_pc = "done" /\ parsed.status = "returned") =>
        \A k \in 1..Len(parsed.items) :
            HasDigit(LinesOf(invoice_text)[parsed.items[k].name_line])

\* what C17 counts as punctuation at the ends of a name: anything that is
\* neither a letter nor a digit
IsPunctuation(c) == c \notin Letters \cup Digits

\* digits, currency signs and separators
NumericOnly(name) ==
    \A k \in 1..Len(name) :
        name[k] \in Digits \cup WhiteSpace \cup {"RUPEE", "$", ".", ",", "/", "-", ":", "|"}

\* C17: every item of the result has a material_name of at least 3
\* characters that neither begins nor ends with punctuation and does not
\* consist of digits, currency signs and separators only.
C17_NamesAreClean ==
    (parse_pc = "done" /\ parsed.status = "returned") =>
        \A k \in 1..Len(parsed.items) :
            LET name == parsed.items[k].material_name
            IN  /\ Len(name) >= 3
                /\ ~IsPunctuation(name[1])
                /\ ~IsPunctuation(name[Len(name)])
                /\ ~NumericOnly(name)

\* C18: every item of the result has a quantity greater than 0 (the model
\* has no null quantity: an InvoiceLine always carries the number parsed).
C18_PositiveQuantity ==
    (parse_pc = "done" /\ parsed.status = "returned") =>
        \A k \in 1..Len(parsed.items) : Gt(parsed.items[k].quantity, Num(0))

\* the lines of ItemLines of the form '<name> q Mtr r Mtr a', with the name,
\* q, r and a (thousands separators removed) read off the line by hand
TabularLines ==
    {[line |-> LineCassia, name |-> SubSeq(LineCassia, 1, 12),
      q |-> Frac(415, 100), r |-> Num(720), a |-> Num(2988)],
     [line |-> LineShortName, name |-> SubSeq(LineShortName, 1, 2),
      q |-> Frac(415, 100), r |-> Num(720), a |-> Num(2988)],
     [line |-> LineZeroQuantity, name |-> SubSeq(LineZeroQuantity, 1, 6),
      q |-> Num(0), r |-> Num(720), a |-> Num(0)],
     [line |-> LineHsn, name |-> SubSeq(LineHsn, 1, 17),
      q |-> Frac(415, 100), r |-> Num(720), a |-> Num(2988)]}

\* the items of the result whose name comes from the line k of the text
ItemsOfLine(k) == {j \in 1..Len(parsed.items) : parsed.items[j].name_line = k}

\* the line k of the text yields exactly one item, with the numbers of row
YieldsItem(k, row) ==
    /\ parsed.status = "returned"
    /\ Cardinality(ItemsOfLine(k)) = 1
    /\ \A j \in ItemsOfLine(k) :
          /\ Same(parsed.items[j].quantity, row.q)
          /\ Same(parsed.items[j].rate, row.r)
          /\ Same(parsed.items[j].amount, row.a)

\* |a - q * r| <= 0.01
WithinCent(row) ==
    LET product == Mul(row.q, row.r)
    IN  /\ Geq(Add(product, Frac(1, 100)), row.a)
        /\ Geq(Add(row.a, Frac(1, 100)), product)

SubstringOfRow(parsed_name, i) ==
    Contains(clean_fabric_name(remove_csv_prefix(csv_fabrics[i].original_name)),
             clean_fabric_name(parsed_name))

\* C20: find_csv_fabric_match returns a match (not None) whenever the cleaned
\* parsed name is a substring of the cleaned, prefix-removed name of at
\* least one catalog entry, for parsed names of any length.
C20_SubstringAlwaysMatches ==
    (/\ csv_result.status # "idle"
     /\ \E i \in 1..Len(csv_fabrics) : SubstringOfRow(csv_result.parsed_name, i))
        => (csv_result.status = "returned" /\ csv_result.match # <<>>)

\* the thread t has answered a request
Answered(t) == requests[t].pc = "done"

\* the request of the thread t has no X-API-Key or one that is the key of
\* no user
Unknown(t) ==
    \/ requests[t].api_key = <<>>
    \/ requests[t].api_key[1] \notin {users_db[k].api_key : k \in DOMAIN users_db}

\* the request of the thread t carries the key of a user
Authenticated(t) == ~Unknown(t)

\* the items the parser finds in the text of the first file of a request
ParseableItems(r) ==
    IF r.files = <<>> \/ r.files[1].text = <<>> THEN <<>>
    ELSE parse_invoice(r.files[1].text).items

\* the summary counts the items and the items with a catalog match
SummaryCounts(summary, items) ==
    /\ summary.total_items = Len(items)
    /\ \E libs \in AppLibResults(items, csv_fabrics) :
          summary.matched_items =
              Cardinality({i \in 1..Len(items) :
                  find_csv_fabric_match(items[i].material_name, csv_fabrics, libs[i],
                                        DefaultThreshold).match # <<>>})

\* C21: an authenticated POST /api/v1/analyze within the limits, with a file of
\* an allowed type whose text holds a parseable line item, is answered 200
\* with success = true and a summary that counts the parsed and the matched items
C21_AnalyzeAnswersSuccess ==
    \A t \in DOMAIN requests :
        LET r == requests[t]
        IN  (/\ Answered(t) /\ r.endpoint = "analyze" /\ Authenticated(t)
             /\ r.status # 429
             /\ r.files # <<>> /\ allowed_file(r.files[1].filename)
             /\ ParseableItems(r) # <<>>)
            => /\ r.status = 200
               /\ r.results # <<>> /\ r.results[1].success
               /\ r.results[1].summary # <<>>
               /\ SummaryCounts(r.results[1].summary[1], ParseableItems(r))

\* C22: a request to an authenticated endpoint whose X-API-Key is missing or
\* the key of no user is answered 401 by require_auth, the only step it
\* takes: users_db, rate_limit_store and the upload folder stay as they are
C22_UnknownKeyRefused ==
    [][\A t \in DOMAIN requests :
          (/\ requests[t].pc = "require_auth" /\ Unknown(t)
           /\ requests'[t] # requests[t])
          => /\ requests'[t].pc = "done" /\ requests'[t].status = 401
             /\ requests'[t].results = <<>>
             /\ UNCHANGED <<users_db, rate_limit_store, uploads, accepted>>]_vars

\* an upload without a key and a new user under the key of nobody were both
\* answered 401
C22_Witness ==
    /\ Answered(1) /\ Answered(2) /\ Unknown(1) /\ Unknown(2)
    /\ requests[1].endpoint = "analyze" /\ requests[1].api_key = <<>>
    /\ requests[1].files # <<>>
    /\ requests[2].endpoint = "create_user" /\ requests[2].api_key = <<UnknownKey>>
    /\ requests[1].status = 401 /\ requests[2].status = 401
    /\ users_db = InitialUsers /\ rate_limit_store = <<>> /\ uploads = <<>>

\* C23: match_fabric leaves database_fabrics and db_index as they are, so
\* that after any sequence of calls the index is the one built from the
\* catalog at construction, and what a call returns is fixed by its parsed
\* name and that index (and by what the similarity libraries return), not
\* by the calls before it
C23_MatcherUnchanged ==
    /\ [][database_fabrics' = database_fabrics /\ db_index' = db_index]_vars
    /\ [](result # NoResult =>
            result = match_fabric(build_index(database_fabrics), result.parsed_name,
                                  lib_results))

\* a call has proposed an entry of a catalog of two entries
C23_Witness ==
    /\ result.status = "returned" /\ result.database_fabric # <<>>
    /\ Len(database_fabrics) = 2
    /\ db_index = build_index(database_fabrics)

\* a catalog name without its supplier prefix: the letter and hyphen of
\* "a - ...", or the first word when it is one of the supplier words; a name
\* without such a prefix is the name itself
WithoutSupplierPrefix(db_name) ==
    LET tokens == tokenize_string(db_name)
    IN  IF StripLetterHyphen(db_name) # db_name THEN StripLetterHyphen(db_name)
        ELSE IF tokens # <<>> /\ tokens[1] \in PrefixTokens /\ Len(tokens) > 1
        THEN StripLeadingWord(db_name)
        ELSE db_name

\* the parsed name and the catalog name without its prefix are both
\* non-empty and one contains the other
ContainmentHolds(parsed_name, db_name) ==
    LET normalized_parsed == normalize_string(parsed_name)
        remaining == WithoutSupplierPrefix(db_name)
    IN  /\ normalized_parsed # <<>> /\ remaining # <<>>
        /\ Contains(remaining, normalized_parsed) \/ Contains(normalized_parsed, remaining)

\* at least 2 tokens are shared once the prefix tokens are removed
OverlapHolds(parsed_name, db_name) ==
    Cardinality(SetOf(tokenize_string(parsed_name))
                \cap (SetOf(tokenize_string(db_name)) \ PrefixTokens)) >= 2

\* C24: an entry proposed by prefix_based_match is proposed through
\* containment (both names non-empty after the supplier prefix of the
\* catalog name is removed, one containing the other) or through an overlap
\* of at least 2 tokens that are no prefix tokens
C24_PrefixProposalJustified ==
    (result.status = "returned" /\ result.match_algorithm = "PREFIX_BASED_MATCH")
    => \E i \in 1..Len(db_index) :
          /\ <<db_index[i].fabric>> = result.database_fabric
          /\ \/ ContainmentHolds(result.parsed_name, db_index[i].key)
             \/ OverlapHolds(result.parsed_name, db_index[i].key)

\* C26: a call of match_fabric on a non-empty catalog returns a MatchResult,
\* whatever the parsed name: no strategy raises
C26_MatchFabricTotal ==
    (result # NoResult /\ database_fabrics # <<>>) => result.status = "returned"

\* the places of the pattern list whose pattern matches the line
MatchingPatterns(line) == {p \in 1..Len(SaromPatterns) : Search(SaromPatterns[p], line).ok}

\* the match of the first pattern of the list that matches the line
FirstPatternMatch(line) ==
    Search(SaromPatterns[CHOOSE p \in MatchingPatterns(line) :
                            \A other \in MatchingPatterns(line) : p <= other], line)

\* the name the cleaner makes of the part of the line before the match m
NameBefore(line, m) ==
    IF StripWs(SubSeq(line, 1, m.start - 1)) = <<>> THEN <<>>
    ELSE clean_sarom_fabric_name(StripWs(SubSeq(line, 1, m.start - 1)))

\* the items of the line k are the one item of the match m: its name is the
\* cleaned part before the match, its numbers are the groups of the match
ItemOfMatch(k, line, m) ==
    /\ Cardinality(ItemsOfLine(k)) = 1
    /\ \A j \in ItemsOfLine(k) :
          /\ parsed.items[j].material_name = NameBefore(line, m)
          /\ parsed.items[j].quantity = ParseFloat(Group(line, m, 1)).val
          /\ parsed.items[j].rate = ParseFloat(Group(line, m, 2)).val
          /\ parsed.items[j].amount = ParseFloat(RemoveCommas(Group(line, m, 3))).val

\* what the first matching pattern decides for the line k of the text
DecidedByFirstMatch(k, line) ==
    IF Len(line) < 10 \/ MatchingPatterns(line) = {} THEN ItemsOfLine(k) = {}
    ELSE IF Len(NameBefore(line, FirstPatternMatch(line))) >= 3
    THEN ItemOfMatch(k, line, FirstPatternMatch(line))
    ELSE ItemsOfLine(k) = {}

\* C25: when the tabular-numeric extractor returns, every line of the text
\* has the items its first matching pattern decides: one item with the
\* fields of that match when the cleaner accepts the name before it, no item
\* when the cleaner rejects the name or no pattern matches; no line has more
\* than one item
C25_FirstPatternDecides ==
    (parse_pc = "done" /\ format_type = "sarom" /\ parsed.status = "returned") =>
        \A k \in 1..Len(LinesOf(invoice_text)) :
            /\ Cardinality(ItemsOfLine(k)) <= 1
            /\ DecidedByFirstMatch(k, StripWs(LinesOf(invoice_text)[k]))

\* the last time of a list of times
LastTime(timestamps) == timestamps[Len(timestamps)].t

\* C27: of the requests of a user to a rate-limited endpoint that were
\* accepted, at most 60 lie in the 60 seconds, at most 1000 in the hour and
\* at most 10000 in the 24 hours that end with the latest of them, and
\* rate_limit_store holds accepted requests only: a request answered 429 is
\* in neither
C27_LimitsHold ==
    \A user_key \in DOMAIN accepted :
        LET log == accepted[user_key]
            stored == Get(rate_limit_store, user_key)
        IN  log # <<>> =>
               /\ Recent(log, LastTime(log), 60) <= REQUESTS_PER_MINUTE
               /\ Recent(log, LastTime(log), 3600) <= REQUESTS_PER_HOUR
               /\ Recent(log, LastTime(log), 86400) <= REQUESTS_PER_DAY
               /\ \A i \in 1..Len(stored) : \E j \in 1..Len(log) : stored[i] = log[j]
               /\ \A t \in DOMAIN requests :
                     (requests[t].pc = "done" /\ requests[t].status = 429)
                     => LenTimes(Within(log, now, 3600)) = LenTimes(Within(stored, now, 3600))

\* C28: however the threads that handle the requests of one user to one
\* endpoint interleave, at most REQUESTS_PER_MINUTE of them are accepted
\* within the 60 seconds that end with the latest, and every accepted
\* request of the last hour is still recorded in rate_limit_store
C28_NoRaceOnStore ==
    \A user_key \in DOMAIN accepted :
        LET log == accepted[user_key]
            stored == Get(rate_limit_store, user_key)
        IN  log # <<>> =>
               /\ Recent(log, LastTime(log), 60) <= REQUESTS_PER_MINUTE
               /\ Recent(stored, now, 3600) = Recent(log, now, 3600)

\* the thread t has saved an upload and has not yet left its cleanup
HoldsUpload(t) ==
    requests[t].pc \in {"analyze", "cleanup", "remove", "batch_run", "upload_run",
                        "upload_remove"}

\* C30: two requests that hold an upload at the same time hold different
\* paths, and the file at the path of a request is the file that request
\* saved: no request analyses or deletes the upload of another
C30_PathsApart ==
    /\ \A t1, t2 \in DOMAIN requests :
          (t1 # t2 /\ HoldsUpload(t1) /\ HoldsUpload(t2))
          => requests[t1].file_path # requests[t2].file_path
    /\ \A t \in DOMAIN requests :
          (HoldsUpload(t) /\ requests[t].file_path \in DOMAIN uploads)
          => uploads[requests[t].file_path].owner = <<t, requests[t].k>>

\* the uploads in the folder that the thread t saved
UploadsOf(t) == {p \in DOMAIN uploads : uploads[p].owner[1] = t}

\* once a request is answered, no upload it saved is left in the folder
UploadsGone == \A t \in DOMAIN requests : Answered(t) => UploadsOf(t) = {}

\* C29: an upload leaves the folder only by a step of the request that
\* saved it, and once a request is answered no upload it saved is left in
\* the folder, whatever the answer
C29_SaverDeletes ==
    /\ []UploadsGone
    /\ [][\A p \in DOMAIN uploads :
             p \notin DOMAIN uploads'
             => requests'[uploads[p].owner[1]] # requests[uploads[p].owner[1]]]_vars

====
